---------------------------- MODULE Spec2Model ----------------------------
(***************************************************************************)
(* Routing core of TradeReAct: the phase sequencer, the analyst            *)
(* dispatcher (serial and parallel) and the two debate coordinators of     *)
(* tradereact/agents/supervisor/supervisor.py, the workers that write the  *)
(* shared AgentState, and the initial state of graph/propagation.py.       *)
(*                                                                         *)
(* A Python str is a sequence of one-character strings, so that strip(),   *)
(* lower(), startswith() and the substring test are computed, not assumed. *)
(***************************************************************************)
EXTENDS Naturals, Integers, Sequences, FiniteSets, TLC

VARIABLES
    kind,       \* which supervisor drives this run: "sequencer", "analyst", "research", "risk"
    members,    \* the member list the supervisor was built with
    method,     \* analyst dispatcher mode: "serial" or "parallel"
    max_turns,  \* max_turns the debate coordinator was built with
    state,      \* the shared AgentState
    pc,         \* "supervisor": the supervisor is scheduled; "waiting"; "done": it returned END
    inflight,   \* invocations routed to and not yet completed: [node, round], started by decision log[round]
    log,        \* the successive decisions: [goto: the targets, arg: the state they are given]
    writes,     \* the <<round, node, field>> writes of the workers so far
    workers,    \* what the debate workers of this run do: [debaters, judge]
    outer,      \* the pipeline around this graph run, if any: its step budget, the
                \* suspended run of the workflow graph, the results of the subgraphs
    host        \* the TradingAgentsGraph that is called run after run, if any: its
                \* attributes, the objects its runs built, the files it wrote

vars ==
    <<kind, members, method, max_turns, state, pc, inflight, log, writes, workers, outer,
      host>>

----------------------------------------------------------------------------
(* Bounds of the model *)

\* longest phase list given to make_supervisor_node
MaxPhases == 3

\* most decisions recorded for one supervisor (caps runs that never end)
MaxLog == 5

\* largest max_turns a debate coordinator is built with when its debaters may
\* write any continuity signal
MaxTurns == 1

\* most turns of the judge in one debate (caps a judge that never decides)
MaxJudgeTurns == 2

----------------------------------------------------------------------------
(* Python strings *)

Empty == <<>>

\* the value of dict.get() for an absent key
None == <<"<None>">>

Whitespace == {" ", "\t", "\n"}

UpperCase == <<"A", "B", "C", "D", "E", "F", "G", "H", "I", "J", "K", "L", "M",
               "N", "O", "P", "Q", "R", "S", "T", "U", "V", "W", "X", "Y", "Z">>

LowerCase == <<"a", "b", "c", "d", "e", "f", "g", "h", "i", "j", "k", "l", "m",
               "n", "o", "p", "q", "r", "s", "t", "u", "v", "w", "x", "y", "z">>

\* the lower-case letter of each upper-case letter
ToLower ==
    [c \in {UpperCase[i] : i \in 1..Len(UpperCase)} |->
        LowerCase[CHOOSE i \in 1..Len(UpperCase) : UpperCase[i] = c]]

LowerChar(c) == IF c \in DOMAIN ToLower THEN ToLower[c] ELSE c

\* str.lower()
Lower(s) == [i \in 1..Len(s) |-> LowerChar(s[i])]

RECURSIVE LStrip(_)
LStrip(s) ==
    IF s # <<>> /\ Head(s) \in Whitespace THEN LStrip(Tail(s)) ELSE s

RECURSIVE RStrip(_)
RStrip(s) ==
    IF s # <<>> /\ s[Len(s)] \in Whitespace
    THEN RStrip(SubSeq(s, 1, Len(s) - 1))
    ELSE s

\* str.strip()
Strip(s) == RStrip(LStrip(s))

\* s.startswith(p)
StartsWith(s, p) == Len(p) <= Len(s) /\ SubSeq(s, 1, Len(p)) = p

\* p in s, for strings
Contains(s, p) ==
    \E i \in 0..(Len(s) - Len(p)) : SubSeq(s, i + 1, i + Len(p)) = p

\* x or ""
OrEmpty(x) == IF x = None \/ x = <<>> THEN Empty ELSE x

\* x in list
InList(x, list) == \E i \in 1..Len(list) : list[i] = x

\* list.index(x), 1-based; x is in list
IndexOf(x, list) ==
    CHOOSE i \in 1..Len(list) : list[i] = x /\ \A j \in 1..(i - 1) : list[j] # x

\* [m.lower() for m in members]
LowerAll(list) == [i \in 1..Len(list) |-> Lower(list[i])]

----------------------------------------------------------------------------
(* Names *)

END == <<"_", "_", "e", "n", "d", "_", "_">>
SYSTEM == <<"s", "y", "s", "t", "e", "m">>
SUPERVISOR == <<"s", "u", "p", "e", "r", "v", "i", "s", "o", "r">>
ANALYST == <<"a", "n", "a", "l", "y", "s", "t">>
RESEARCHER == <<"r", "e", "s", "e", "a", "r", "c", "h", "e", "r">>
TRADER == <<"t", "r", "a", "d", "e", "r">>
RISK == <<"r", "i", "s", "k">>
MARKET_NODE == <<"m", "a", "r", "k", "e", "t", "_", "n", "o", "d", "e">>
NEWS_NODE == <<"n", "e", "w", "s", "_", "n", "o", "d", "e">>
SOCIAL_NODE == <<"s", "o", "c", "i", "a", "l", "_", "n", "o", "d", "e">>
FUNDAMENTALS_NODE == <<"f", "u", "n", "d", "a", "m", "e", "n", "t", "a", "l", "s", "_", "n", "o", "d", "e">>
BEAR_NODE == <<"b", "e", "a", "r", "_", "n", "o", "d", "e">>
BULL_NODE == <<"b", "u", "l", "l", "_", "n", "o", "d", "e">>
RESEARCH_MANAGER_NODE == <<"r", "e", "s", "e", "a", "r", "c", "h", "_", "m", "a", "n", "a", "g", "e", "r", "_", "n", "o", "d", "e">>
RISK_NODE == <<"r", "i", "s", "k", "_", "n", "o", "d", "e">>
SAFE_NODE == <<"s", "a", "f", "e", "_", "n", "o", "d", "e">>
NEUTRAL_NODE == <<"n", "e", "u", "t", "r", "a", "l", "_", "n", "o", "d", "e">>
RISK_MANAGER_NODE == <<"r", "i", "s", "k", "_", "m", "a", "n", "a", "g", "e", "r", "_", "n", "o", "d", "e">>
MANAGER == <<"m", "a", "n", "a", "g", "e", "r">>
BULL_PREFIX == <<"B", "u", "l", "l", " ", "A", "n", "a", "l", "y", "s", "t", ":">>
BEAR_PREFIX == <<"B", "e", "a", "r", " ", "A", "n", "a", "l", "y", "s", "t", ":">>
RISKY == <<"r", "i", "s", "k", "y">>
SAFE == <<"s", "a", "f", "e">>
NEUTRAL == <<"n", "e", "u", "t", "r", "a", "l">>
JUDGE == <<"j", "u", "d", "g", "e">>

----------------------------------------------------------------------------
(* Shared state *)

\* InvestDebateState(...) of create_initial_state
InitialInvestDebateState ==
    [bull_history |-> Empty, bear_history |-> Empty, history |-> Empty,
     current_response |-> Empty, judge_decision |-> Empty, count |-> 0]

\* RiskDebateState(...) of create_initial_state
InitialRiskDebateState ==
    [risky_history |-> Empty, safe_history |-> Empty, neutral_history |-> Empty,
     history |-> Empty, latest_speaker |-> Empty,
     current_risky_response |-> Empty, current_safe_response |-> Empty,
     current_neutral_response |-> Empty, judge_decision |-> Empty, count |-> 0]

\* Propagator.create_initial_state(company_name, trade_date)
create_initial_state(company_name, trade_date) ==
    [messages |-> <<<<"human", company_name>>>>,
     company_of_interest |-> company_name,
     trade_date |-> trade_date,
     sender |-> SYSTEM,
     market_report |-> Empty,
     sentiment_report |-> Empty,
     news_report |-> Empty,
     fundamentals_report |-> Empty,
     investment_debate_state |-> InitialInvestDebateState,
     investment_plan |-> Empty,
     trader_investment_plan |-> Empty,
     risk_debate_state |-> InitialRiskDebateState,
     final_trade_decision |-> Empty]

\* a faulty variant: every key of the update is replaced, messages too
Merge_Replace(st, update) ==
    [f \in DOMAIN st |-> IF f \in DOMAIN update THEN update[f] ELSE st[f]]

\* the channel update of a node's Command: messages has the add_messages reducer
\* (the update's messages are appended), every other key is replaced
Merge(st, update) ==
    [f \in DOMAIN st |->
        IF f \in DOMAIN update
        THEN IF f = "messages" THEN st[f] \o update[f] ELSE update[f]
        ELSE st[f]]

\* bool(x) of a str or None
Truthy(x) == x # None /\ x # Empty

\* a Command without update
NoUpdate == <<>>

\* Command(goto=..., update=...): goto is the sequence of target node names
Command(goto, update) == [goto |-> goto, update |-> update]

\* no state: END is given none
NoArg == <<>>

\* a decision as the log keeps it: the targets and the state handed to them
\* (the same object for every target of one decision)
Decision(goto, arg) ==
    [goto |-> goto, arg |-> IF goto = <<END>> THEN NoArg ELSE arg]

\* the invocations decision number round starts, one per target
Invocations(goto, round) ==
    IF goto = <<END>> THEN <<>>
    ELSE [i \in 1..Len(goto) |-> [node |-> goto[i], round |-> round]]

\* [lg[1].goto, lg[2].goto, ...]
Targets(lg) == [i \in 1..Len(lg) |-> lg[i].goto]

----------------------------------------------------------------------------
(* Phase sequencer *)

\* a faulty variant: the cursor does not advance past the sender's own index
make_supervisor_node_Stuck(mem, st) ==
    LET members_lower == LowerAll(mem)
        sender == Lower(Strip(OrEmpty(st.sender)))
    IN  IF sender = Empty \/ sender = SYSTEM \/ ~InList(sender, members_lower)
        THEN Command(<<mem[1]>>, [sender |-> SUPERVISOR])
        ELSE LET idx == IndexOf(sender, members_lower)
             IN  IF idx >= Len(mem)
                 THEN Command(<<END>>, [sender |-> SUPERVISOR])
                 ELSE Command(<<mem[idx]>>, [sender |-> SUPERVISOR])

\* a faulty variant: the decision that ends the pipeline carries no update
make_supervisor_node_BareEnd(mem, st) ==
    LET members_lower == LowerAll(mem)
        sender == Lower(Strip(OrEmpty(st.sender)))
    IN  IF sender = Empty \/ sender = SYSTEM \/ ~InList(sender, members_lower)
        THEN Command(<<mem[1]>>, [sender |-> SUPERVISOR])
        ELSE LET idx == IndexOf(sender, members_lower)
             IN  IF idx >= Len(mem)
                 THEN Command(<<END>>, NoUpdate)
                 ELSE Command(<<mem[idx + 1]>>, [sender |-> SUPERVISOR])

\* a faulty variant: the cursor advances past the analyst phase only when the
\* phase has left a market report
make_supervisor_node_NeedsReport(mem, st) ==
    LET members_lower == LowerAll(mem)
        sender == Lower(Strip(OrEmpty(st.sender)))
    IN  IF sender = Empty \/ sender = SYSTEM \/ ~InList(sender, members_lower)
        THEN Command(<<mem[1]>>, [sender |-> SUPERVISOR])
        ELSE LET idx == IndexOf(sender, members_lower)
             IN  IF idx >= Len(mem)
                 THEN Command(<<END>>, [sender |-> SUPERVISOR])
                 ELSE IF sender = ANALYST /\ ~Truthy(st.market_report)
                 THEN Command(<<mem[idx]>>, [sender |-> SUPERVISOR])
                 ELSE Command(<<mem[idx + 1]>>, [sender |-> SUPERVISOR])

\* make_supervisor_node(members).supervisor_node(state); idx is 0-based in the
\* source, IndexOf is 1-based, so members[idx] of the source is mem[idx + 1]
make_supervisor_node(mem, st) ==
    LET members_lower == LowerAll(mem)
        sender == Lower(Strip(OrEmpty(st.sender)))
    IN  IF sender = Empty \/ sender = SYSTEM \/ ~InList(sender, members_lower)
        THEN Command(<<mem[1]>>, [sender |-> SUPERVISOR])
        ELSE LET idx == IndexOf(sender, members_lower)
             IN  IF idx >= Len(mem)
                 THEN Command(<<END>>, [sender |-> SUPERVISOR])
                 ELSE Command(<<mem[idx + 1]>>, [sender |-> SUPERVISOR])

\* names a phase list is drawn from: the configured phases, a name that differs
\* from one of them in case only, a name with surrounding whitespace, and the
\* reserved marker
PhaseNames ==
    {ANALYST, RESEARCHER, TRADER, RISK,
     <<"R", "i", "s", "k">>, <<"r", "i", "s", "k", " ">>, SYSTEM}

PhaseLists == UNION {[1..n -> PhaseNames] : n \in 1..MaxPhases}
                \cup {<<ANALYST, RESEARCHER, TRADER, RISK>>}

\* sender values no phase list recognises
UnrecognizedSenders ==
    {None, Empty, SYSTEM, SUPERVISOR, <<" ", "S", "y", "s", "t", "e", "m", " ">>}

Tickers == {<<"A", "A", "P", "L">>}
Dates == {<<"2", "0", "2", "4", "-", "0", "1", "-", "0", "2">>}

\* a graph run on its own, with no pipeline around it
NoOuter == [active |-> FALSE, max_recur_limit |-> 0, stack |-> <<>>, results |-> <<>>]

\* a graph run on its own, with no TradingAgentsGraph calling it
NoHost == <<>>

\* the steps a graph run has taken: one per decision of its supervisor and one
\* per routed round of workers that has completed
StepsOf(lg, tasks) ==
    Len(lg) + Cardinality({r \in 1..Len(lg) :
                              /\ lg[r].goto # <<END>>
                              /\ \A k \in 1..Len(tasks) : tasks[k].round # r})

Steps == StepsOf(log, inflight)

\* the cap on the decisions of a run without a recursion limit; a run with a
\* recursion limit is capped by the limit
WithinLog == outer.active \/ Len(log) < MaxLog

\* a faulty variant: no limit on the steps of a run
WithinBudget_Unlimited == TRUE

\* config={"recursion_limit": max_recur_limit}: a graph run takes a further step
\* only while it has taken fewer than that many
WithinBudget == ~outer.active \/ Steps < outer.max_recur_limit

\* workers that keep the worker contract: a debater writes its own identity as
\* the continuity signal, the judge writes a decision
Contract == [debaters |-> "own", judge |-> "decides"]

InitSequencer ==
    /\ kind = "sequencer"
    /\ members \in PhaseLists
    /\ method = "serial"
    /\ max_turns = 0
    /\ \E c \in Tickers, d \in Dates, s \in UnrecognizedSenders :
          state = [create_initial_state(c, d) EXCEPT !.sender = s]
    /\ pc = "supervisor"
    /\ inflight = <<>>
    /\ log = <<>>
    /\ writes = {}
    /\ outer = NoOuter
    /\ host = NoHost
    /\ workers = Contract

\* the "supervisor" node of the workflow runs
SupervisorStep ==
    /\ kind = "sequencer"
    /\ pc = "supervisor"
    /\ WithinBudget
    /\ WithinLog
    /\ \E cmd \in {make_supervisor_node(members, state)} :
       \E next \in {Merge(state, cmd.update)} :
           /\ state' = next
           /\ log' = Append(log, Decision(cmd.goto, next))
           /\ inflight' = inflight \o Invocations(cmd.goto, Len(log) + 1)
           /\ pc' = IF cmd.goto = <<END>> THEN "done" ELSE "waiting"
    /\ UNCHANGED <<kind, members, method, max_turns, writes, workers, outer, host>>

\* the routed phase completes and sets sender to its own name
PhaseComplete ==
    /\ kind = "sequencer"
    /\ pc = "waiting"
    /\ inflight # <<>>
    /\ LET task == Head(inflight)
           update == [sender |-> task.node]
       IN  /\ state' = Merge(state, update)
           /\ writes' = writes \cup {<<task.round, task.node, f>> : f \in DOMAIN update}
    /\ inflight' = Tail(inflight)
    /\ pc' = "supervisor"
    /\ UNCHANGED <<kind, members, method, max_turns, log, workers, outer, host>>

NextSequencer == SupervisorStep \/ PhaseComplete

SpecSequencer == InitSequencer /\ [][NextSequencer]_vars

----------------------------------------------------------------------------
(* Analyst dispatcher *)

\* a faulty variant: the parallel fan-out leaves out the last member
analyst_supervisor_node_DropLast(mem, meth, st) ==
    LET members_lower == LowerAll(mem)
        sender == Lower(Strip(OrEmpty(st.sender)))
        first == sender = Empty \/ sender = SYSTEM \/ ~InList(sender, members_lower)
    IN  IF meth = "parallel"
        THEN IF first
             THEN Command(SubSeq(mem, 1, Len(mem) - 1), NoUpdate)
             ELSE Command(<<END>>, NoUpdate)
        ELSE IF first
             THEN Command(<<mem[1]>>, NoUpdate)
             ELSE LET idx == IndexOf(sender, members_lower)
                  IN  IF idx >= Len(mem)
                      THEN Command(<<END>>, NoUpdate)
                      ELSE Command(<<mem[idx + 1]>>, NoUpdate)

\* a faulty variant: the parallel branch advances a cursor like the serial one
analyst_supervisor_node_Cursor(mem, meth, st) ==
    LET members_lower == LowerAll(mem)
        sender == Lower(Strip(OrEmpty(st.sender)))
        first == sender = Empty \/ sender = SYSTEM \/ ~InList(sender, members_lower)
    IN  IF first
        THEN Command(IF meth = "parallel" THEN mem ELSE <<mem[1]>>, NoUpdate)
        ELSE LET idx == IndexOf(sender, members_lower)
             IN  IF idx >= Len(mem)
                 THEN Command(<<END>>, NoUpdate)
                 ELSE Command(<<mem[idx + 1]>>, NoUpdate)

\* analyst_supervisor_node(members, method).supervisor_node(state)
analyst_supervisor_node(mem, meth, st) ==
    LET members_lower == LowerAll(mem)
        sender == Lower(Strip(OrEmpty(st.sender)))
        first == sender = Empty \/ sender = SYSTEM \/ ~InList(sender, members_lower)
    IN  IF meth = "parallel"
        THEN IF first
             THEN Command(mem, NoUpdate)          \* [Send(node, state) for node in members]
             ELSE Command(<<END>>, NoUpdate)
        ELSE IF first
             THEN Command(<<mem[1]>>, NoUpdate)
             ELSE LET idx == IndexOf(sender, members_lower)
                  IN  IF idx >= Len(mem)
                      THEN Command(<<END>>, NoUpdate)
                      ELSE Command(<<mem[idx + 1]>>, NoUpdate)

\* members of the analyst subgraph, as create_analyst_node builds it
AnalystMembers == <<MARKET_NODE, NEWS_NODE, SOCIAL_NODE, FUNDAMENTALS_NODE>>

\* the content an analyst's agent returns: empty (a degraded result) or a text
Reports == {Empty, <<"r", "1">>}

\* market_analyst_node: the update of its Command
market_analyst_node(report) ==
    [market_report |-> report, sender |-> MARKET_NODE]

\* news_analyst_node: the update of its Command
news_analyst_node(report) ==
    [messages |-> <<<<"ai", report>>>>, news_report |-> report, sender |-> NEWS_NODE]

\* social_media_analyst_node: the update of its Command
social_media_analyst_node(report) ==
    [sentiment_report |-> report]

\* fundamentals_analyst_node: the update of its Command
fundamentals_analyst_node(report) ==
    [fundamentals_report |-> report, sender |-> FUNDAMENTALS_NODE]

\* the report slot each analyst node owns
ReportSlot(node) ==
    CASE node = MARKET_NODE -> "market_report"
      [] node = NEWS_NODE -> "news_report"
      [] node = SOCIAL_NODE -> "sentiment_report"
      [] node = FUNDAMENTALS_NODE -> "fundamentals_report"

\* the sequence s without its i-th element
RemoveAt(s, i) == SubSeq(s, 1, i - 1) \o SubSeq(s, i + 1, Len(s))

\* the decisions of the log that fanned out (more than one target)
FanOuts(lg) == {i \in 1..Len(lg) : Len(lg[i].goto) > 1}

\* most fan-out decisions of one dispatch round (caps the in-flight invocations)
MaxFanOuts == 1

InitAnalyst ==
    /\ kind = "analyst"
    /\ members = AnalystMembers
    /\ method \in {"serial", "parallel"}
    /\ max_turns = 0
    /\ \E c \in Tickers, d \in Dates, s \in UnrecognizedSenders :
          state = [create_initial_state(c, d) EXCEPT !.sender = s]
    /\ pc = "supervisor"
    /\ inflight = <<>>
    /\ log = <<>>
    /\ writes = {}
    /\ outer = NoOuter
    /\ host = NoHost
    /\ workers = Contract

\* the "analyst_supervisor" node of the analyst subgraph runs
AnalystSupervisorStep ==
    /\ kind = "analyst"
    /\ pc = "supervisor"
    /\ WithinBudget
    /\ WithinLog
    /\ \E cmd \in {analyst_supervisor_node(members, method, state)} :
           /\ Len(cmd.goto) > 1 => Cardinality(FanOuts(log)) < MaxFanOuts
           /\ state' = Merge(state, cmd.update)
           /\ log' = Append(log, Decision(cmd.goto, state))   \* Send(node, state)
           /\ inflight' = inflight \o Invocations(cmd.goto, Len(log) + 1)
           /\ pc' = IF cmd.goto = <<END>> THEN "done" ELSE "waiting"
    /\ UNCHANGED <<kind, members, method, max_turns, writes, workers, outer, host>>

\* an invocation of an analyst node completes: its Command's update is applied
\* and its goto schedules "analyst_supervisor"
AnalystComplete(i, update) ==
    /\ kind = "analyst"
    /\ WithinBudget
    /\ i \in 1..Len(inflight)
    /\ state' = Merge(state, update)
    /\ writes' = writes \cup
          {<<inflight[i].round, inflight[i].node, f>> : f \in DOMAIN update}
    /\ inflight' = RemoveAt(inflight, i)
    /\ pc' = "supervisor"
    /\ UNCHANGED <<kind, members, method, max_turns, log, workers, outer, host>>

MarketAnalyst ==
    \E i \in 1..Len(inflight), report \in Reports :
        /\ inflight[i].node = MARKET_NODE
        /\ AnalystComplete(i, market_analyst_node(report))

NewsAnalyst ==
    \E i \in 1..Len(inflight), report \in Reports :
        /\ inflight[i].node = NEWS_NODE
        /\ AnalystComplete(i, news_analyst_node(report))

SocialMediaAnalyst ==
    \E i \in 1..Len(inflight), report \in Reports :
        /\ inflight[i].node = SOCIAL_NODE
        /\ AnalystComplete(i, social_media_analyst_node(report))

FundamentalsAnalyst ==
    \E i \in 1..Len(inflight), report \in Reports :
        /\ inflight[i].node = FUNDAMENTALS_NODE
        /\ AnalystComplete(i, fundamentals_analyst_node(report))

NextAnalyst ==
    \/ AnalystSupervisorStep
    \/ MarketAnalyst
    \/ NewsAnalyst
    \/ SocialMediaAnalyst
    \/ FundamentalsAnalyst

SpecAnalyst == InitAnalyst /\ [][NextAnalyst]_vars

----------------------------------------------------------------------------
(* Debate coordinators *)

\* a faulty variant: every member counts as a debater, the managers too
debater_count_AllMembers(members_lower) ==
    IF Len(members_lower) = 0 THEN 1 ELSE Len(members_lower)

\* len([m for m in members_lower if "manager" not in m]) or 1
debater_count(members_lower) ==
    LET n == Cardinality({i \in 1..Len(members_lower) :
                              ~Contains(members_lower[i], MANAGER)})
    IN  IF n = 0 THEN 1 ELSE n

\* _pick(name): the member as configured
Pick(mem, name) == mem[IndexOf(name, LowerAll(mem))]

\* a faulty variant: the escalation check comes before the terminal check
research_supervisor_node_EscalateFirst(mem, mt, st) ==
    LET members_lower == LowerAll(mem)
        debate == st.investment_debate_state
        current == Strip(OrEmpty(debate.current_response))
    IN  IF debate.count >= mt * debater_count(members_lower)
                /\ InList(RESEARCH_MANAGER_NODE, members_lower)
        THEN Command(<<Pick(mem, RESEARCH_MANAGER_NODE)>>, NoUpdate)
        ELSE IF Truthy(debate.judge_decision) THEN Command(<<END>>, NoUpdate)
        ELSE IF StartsWith(current, BULL_PREFIX) /\ InList(BEAR_NODE, members_lower)
        THEN Command(<<Pick(mem, BEAR_NODE)>>, NoUpdate)
        ELSE IF StartsWith(current, BEAR_PREFIX) /\ InList(BULL_NODE, members_lower)
        THEN Command(<<Pick(mem, BULL_NODE)>>, NoUpdate)
        ELSE IF InList(BULL_NODE, members_lower)
        THEN Command(<<Pick(mem, BULL_NODE)>>, NoUpdate)
        ELSE Command(<<mem[1]>>, NoUpdate)

\* a faulty variant: escalation one turn late (> for >=)
research_supervisor_node_Late(mem, mt, st) ==
    LET members_lower == LowerAll(mem)
        debate == st.investment_debate_state
        current == Strip(OrEmpty(debate.current_response))
    IN  IF Truthy(debate.judge_decision) THEN Command(<<END>>, NoUpdate)
        ELSE IF debate.count > mt * debater_count(members_lower)
                /\ InList(RESEARCH_MANAGER_NODE, members_lower)
        THEN Command(<<Pick(mem, RESEARCH_MANAGER_NODE)>>, NoUpdate)
        ELSE IF StartsWith(current, BULL_PREFIX) /\ InList(BEAR_NODE, members_lower)
        THEN Command(<<Pick(mem, BEAR_NODE)>>, NoUpdate)
        ELSE IF StartsWith(current, BEAR_PREFIX) /\ InList(BULL_NODE, members_lower)
        THEN Command(<<Pick(mem, BULL_NODE)>>, NoUpdate)
        ELSE IF InList(BULL_NODE, members_lower)
        THEN Command(<<Pick(mem, BULL_NODE)>>, NoUpdate)
        ELSE Command(<<mem[1]>>, NoUpdate)

\* a faulty variant: the debate starts with the first member (bear_node) instead of bull_node
research_supervisor_node_FirstMember(mem, mt, st) ==
    LET members_lower == LowerAll(mem)
        debate == st.investment_debate_state
        current == Strip(OrEmpty(debate.current_response))
    IN  IF Truthy(debate.judge_decision) THEN Command(<<END>>, NoUpdate)
        ELSE IF debate.count >= mt * debater_count(members_lower)
                /\ InList(RESEARCH_MANAGER_NODE, members_lower)
        THEN Command(<<Pick(mem, RESEARCH_MANAGER_NODE)>>, NoUpdate)
        ELSE IF StartsWith(current, BULL_PREFIX) /\ InList(BEAR_NODE, members_lower)
        THEN Command(<<Pick(mem, BEAR_NODE)>>, NoUpdate)
        ELSE IF StartsWith(current, BEAR_PREFIX) /\ InList(BULL_NODE, members_lower)
        THEN Command(<<Pick(mem, BULL_NODE)>>, NoUpdate)
        ELSE Command(<<mem[1]>>, NoUpdate)

\* a faulty variant: the labels of the debaters are matched in any letter case
research_supervisor_node_AnyCase(mem, mt, st) ==
    LET members_lower == LowerAll(mem)
        debate == st.investment_debate_state
        current == Lower(Strip(OrEmpty(debate.current_response)))
    IN  IF Truthy(debate.judge_decision) THEN Command(<<END>>, NoUpdate)
        ELSE IF debate.count >= mt * debater_count(members_lower)
                /\ InList(RESEARCH_MANAGER_NODE, members_lower)
        THEN Command(<<Pick(mem, RESEARCH_MANAGER_NODE)>>, NoUpdate)
        ELSE IF StartsWith(current, Lower(BULL_PREFIX)) /\ InList(BEAR_NODE, members_lower)
        THEN Command(<<Pick(mem, BEAR_NODE)>>, NoUpdate)
        ELSE IF StartsWith(current, Lower(BEAR_PREFIX)) /\ InList(BULL_NODE, members_lower)
        THEN Command(<<Pick(mem, BULL_NODE)>>, NoUpdate)
        ELSE IF InList(BULL_NODE, members_lower)
        THEN Command(<<Pick(mem, BULL_NODE)>>, NoUpdate)
        ELSE Command(<<mem[1]>>, NoUpdate)

\* research_supervisor_node(members, max_turns).supervisor_node(state)
research_supervisor_node(mem, mt, st) ==
    LET members_lower == LowerAll(mem)
        debate == st.investment_debate_state
        current == Strip(OrEmpty(debate.current_response))
    IN  IF Truthy(debate.judge_decision) THEN Command(<<END>>, NoUpdate)
        ELSE IF debate.count >= mt * debater_count(members_lower)
                /\ InList(RESEARCH_MANAGER_NODE, members_lower)
        THEN Command(<<Pick(mem, RESEARCH_MANAGER_NODE)>>, NoUpdate)
        ELSE IF StartsWith(current, BULL_PREFIX) /\ InList(BEAR_NODE, members_lower)
        THEN Command(<<Pick(mem, BEAR_NODE)>>, NoUpdate)
        ELSE IF StartsWith(current, BEAR_PREFIX) /\ InList(BULL_NODE, members_lower)
        THEN Command(<<Pick(mem, BULL_NODE)>>, NoUpdate)
        ELSE IF InList(BULL_NODE, members_lower)
        THEN Command(<<Pick(mem, BULL_NODE)>>, NoUpdate)
        ELSE Command(<<mem[1]>>, NoUpdate)

\* a faulty variant: the debate ends on a decision of the judge only
risk_supervisor_node_DecisionOnly(mem, mt, st) ==
    LET members_lower == LowerAll(mem)
        debate == st.risk_debate_state
        latest == Strip(Lower(OrEmpty(debate.latest_speaker)))
    IN  IF Truthy(debate.judge_decision)
        THEN Command(<<END>>, NoUpdate)
        ELSE IF debate.count >= mt * debater_count(members_lower)
                /\ InList(RISK_MANAGER_NODE, members_lower)
        THEN Command(<<Pick(mem, RISK_MANAGER_NODE)>>, NoUpdate)
        ELSE IF latest = RISKY /\ InList(SAFE_NODE, members_lower)
        THEN Command(<<Pick(mem, SAFE_NODE)>>, NoUpdate)
        ELSE IF latest = SAFE /\ InList(NEUTRAL_NODE, members_lower)
        THEN Command(<<Pick(mem, NEUTRAL_NODE)>>, NoUpdate)
        ELSE IF latest = NEUTRAL /\ InList(RISK_NODE, members_lower)
        THEN Command(<<Pick(mem, RISK_NODE)>>, NoUpdate)
        ELSE IF InList(RISK_NODE, members_lower)
        THEN Command(<<Pick(mem, RISK_NODE)>>, NoUpdate)
        ELSE Command(<<mem[1]>>, NoUpdate)

\* a faulty variant: the escalation to the judge starts count again
risk_supervisor_node_Recount(mem, mt, st) ==
    LET members_lower == LowerAll(mem)
        debate == st.risk_debate_state
        latest == Strip(Lower(OrEmpty(debate.latest_speaker)))
    IN  IF Truthy(debate.judge_decision) \/ Lower(OrEmpty(debate.latest_speaker)) = JUDGE
        THEN Command(<<END>>, NoUpdate)
        ELSE IF debate.count >= mt * debater_count(members_lower)
                /\ InList(RISK_MANAGER_NODE, members_lower)
        THEN Command(<<Pick(mem, RISK_MANAGER_NODE)>>,
                     [risk_debate_state |-> [debate EXCEPT !.count = 0]])
        ELSE IF latest = RISKY /\ InList(SAFE_NODE, members_lower)
        THEN Command(<<Pick(mem, SAFE_NODE)>>, NoUpdate)
        ELSE IF latest = SAFE /\ InList(NEUTRAL_NODE, members_lower)
        THEN Command(<<Pick(mem, NEUTRAL_NODE)>>, NoUpdate)
        ELSE IF latest = NEUTRAL /\ InList(RISK_NODE, members_lower)
        THEN Command(<<Pick(mem, RISK_NODE)>>, NoUpdate)
        ELSE IF InList(RISK_NODE, members_lower)
        THEN Command(<<Pick(mem, RISK_NODE)>>, NoUpdate)
        ELSE Command(<<mem[1]>>, NoUpdate)

\* a faulty variant: the successor cycle runs backwards
risk_supervisor_node_Backwards(mem, mt, st) ==
    LET members_lower == LowerAll(mem)
        debate == st.risk_debate_state
        latest == Strip(Lower(OrEmpty(debate.latest_speaker)))
    IN  IF Truthy(debate.judge_decision) \/ Lower(OrEmpty(debate.latest_speaker)) = JUDGE
        THEN Command(<<END>>, NoUpdate)
        ELSE IF debate.count >= mt * debater_count(members_lower)
                /\ InList(RISK_MANAGER_NODE, members_lower)
        THEN Command(<<Pick(mem, RISK_MANAGER_NODE)>>, NoUpdate)
        ELSE IF latest = RISKY /\ InList(NEUTRAL_NODE, members_lower)
        THEN Command(<<Pick(mem, NEUTRAL_NODE)>>, NoUpdate)
        ELSE IF latest = NEUTRAL /\ InList(SAFE_NODE, members_lower)
        THEN Command(<<Pick(mem, SAFE_NODE)>>, NoUpdate)
        ELSE IF latest = SAFE /\ InList(RISK_NODE, members_lower)
        THEN Command(<<Pick(mem, RISK_NODE)>>, NoUpdate)
        ELSE IF InList(RISK_NODE, members_lower)
        THEN Command(<<Pick(mem, RISK_NODE)>>, NoUpdate)
        ELSE Command(<<mem[1]>>, NoUpdate)

\* a faulty variant: the escalation check comes after turn-taking
risk_supervisor_node_TurnsFirst(mem, mt, st) ==
    LET members_lower == LowerAll(mem)
        debate == st.risk_debate_state
        latest == Strip(Lower(OrEmpty(debate.latest_speaker)))
    IN  IF Truthy(debate.judge_decision) \/ Lower(OrEmpty(debate.latest_speaker)) = JUDGE
        THEN Command(<<END>>, NoUpdate)
        ELSE IF latest = RISKY /\ InList(SAFE_NODE, members_lower)
        THEN Command(<<Pick(mem, SAFE_NODE)>>, NoUpdate)
        ELSE IF latest = SAFE /\ InList(NEUTRAL_NODE, members_lower)
        THEN Command(<<Pick(mem, NEUTRAL_NODE)>>, NoUpdate)
        ELSE IF debate.count >= mt * debater_count(members_lower)
                /\ InList(RISK_MANAGER_NODE, members_lower)
        THEN Command(<<Pick(mem, RISK_MANAGER_NODE)>>, NoUpdate)
        ELSE IF latest = NEUTRAL /\ InList(RISK_NODE, members_lower)
        THEN Command(<<Pick(mem, RISK_NODE)>>, NoUpdate)
        ELSE IF InList(RISK_NODE, members_lower)
        THEN Command(<<Pick(mem, RISK_NODE)>>, NoUpdate)
        ELSE Command(<<mem[1]>>, NoUpdate)

\* risk_supervisor_node(members, max_turns).supervisor_node(state)
risk_supervisor_node(mem, mt, st) ==
    LET members_lower == LowerAll(mem)
        debate == st.risk_debate_state
        latest == Strip(Lower(OrEmpty(debate.latest_speaker)))
    IN  IF Truthy(debate.judge_decision) \/ Lower(OrEmpty(debate.latest_speaker)) = JUDGE
        THEN Command(<<END>>, NoUpdate)
        ELSE IF debate.count >= mt * debater_count(members_lower)
                /\ InList(RISK_MANAGER_NODE, members_lower)
        THEN Command(<<Pick(mem, RISK_MANAGER_NODE)>>, NoUpdate)
        ELSE IF latest = RISKY /\ InList(SAFE_NODE, members_lower)
        THEN Command(<<Pick(mem, SAFE_NODE)>>, NoUpdate)
        ELSE IF latest = SAFE /\ InList(NEUTRAL_NODE, members_lower)
        THEN Command(<<Pick(mem, NEUTRAL_NODE)>>, NoUpdate)
        ELSE IF latest = NEUTRAL /\ InList(RISK_NODE, members_lower)
        THEN Command(<<Pick(mem, RISK_NODE)>>, NoUpdate)
        ELSE IF InList(RISK_NODE, members_lower)
        THEN Command(<<Pick(mem, RISK_NODE)>>, NoUpdate)
        ELSE Command(<<mem[1]>>, NoUpdate)

\* members of the research subgraph, as create_researcher_node builds it
ResearchMembers == <<BEAR_NODE, BULL_NODE, RESEARCH_MANAGER_NODE>>

\* members of the risk subgraph, as create_risk_node builds it
RiskMembers == <<RISK_NODE, SAFE_NODE, NEUTRAL_NODE, RISK_MANAGER_NODE>>

\* the coordinator of the debate this run drives
DebateDecision ==
    IF kind = "research"
    THEN research_supervisor_node(members, max_turns, state)
    ELSE risk_supervisor_node(members, max_turns, state)

\* the debate record this run drives
Debate == IF kind = "research" THEN state.investment_debate_state
                               ELSE state.risk_debate_state

\* texts of a research debater's turn: its label and an argument, the same
\* after whitespace, the label in lower case, and nothing
BullText == BULL_PREFIX \o <<" ", "u", "p">>
BearText == BEAR_PREFIX \o <<" ", "d", "n">>
ResearchTexts ==
    {BullText, BearText, <<" ", "\n">> \o BearText, Lower(BullText), Empty}

\* values a risk debater leaves in latest_speaker
RiskSpeakers ==
    {<<"R", "i", "s", "k", "y">>, <<"S", "a", "f", "e">>,
     <<"N", "e", "u", "t", "r", "a", "l">>,
     <<" ", "S", "A", "F", "E", " ">>, <<"J", "u", "d", "g", "e">>, Empty}

\* a judge's decision: a text, or nothing (a degraded result)
JudgeTexts == {<<"B", "U", "Y">>, Empty}

\* what a debater of this run may write as its continuity signal
Signals(all, own) == IF workers.debaters = "own" THEN {own} ELSE all

\* what the judge of this run may write as its decision
Decisions == IF workers.judge = "decides" THEN JudgeTexts \ {Empty} ELSE JudgeTexts

\* max_turns the risk coordinator is built with by default
DefaultRiskTurns == 3

\* the max_turns a debate of this run may be built with: any up to MaxTurns,
\* and the default of the risk debate when the debaters keep the contract
TurnChoices ==
    0..MaxTurns \cup (IF workers.debaters = "own" THEN {DefaultRiskTurns} ELSE {})

InitDebate ==
    /\ kind \in {"research", "risk"}
    /\ members = IF kind = "research" THEN ResearchMembers ELSE RiskMembers
    /\ method = "serial"
    /\ workers \in [debaters : {"own", "any"}, judge : {"decides", "any"}]
    /\ max_turns \in TurnChoices
    /\ \E c \in Tickers, d \in Dates :
          state = [create_initial_state(c, d) EXCEPT !.sender = SUPERVISOR]
    /\ pc = "supervisor"
    /\ inflight = <<>>
    /\ log = <<>>
    /\ writes = {}
    /\ outer = NoOuter
    /\ host = NoHost

\* the judge of the debate this run drives
JudgeNode == IF kind = "research" THEN RESEARCH_MANAGER_NODE ELSE RISK_MANAGER_NODE

\* the decisions so far that routed the judge
JudgeRoutes == {i \in 1..Len(log) : log[i].goto = <<JudgeNode>>}

\* the judge has turns left when the decision routes it
WithinJudgeTurns(goto) ==
    goto = <<JudgeNode>> => Cardinality(JudgeRoutes) < MaxJudgeTurns

\* the "research_supervisor" or "risk_supervisor" node of the debate subgraph runs
DebateSupervisorStep ==
    /\ kind \in {"research", "risk"}
    /\ pc = "supervisor"
    /\ WithinBudget
    /\ \E cmd \in {DebateDecision} :
           /\ WithinJudgeTurns(cmd.goto)
           /\ state' = Merge(state, cmd.update)
           /\ log' = Append(log, Decision(cmd.goto, state))
           /\ inflight' = inflight \o Invocations(cmd.goto, Len(log) + 1)
           /\ pc' = IF cmd.goto = <<END>> THEN "done" ELSE "waiting"
    /\ UNCHANGED <<kind, members, method, max_turns, writes, workers, outer, host>>

\* the routed node of a debate subgraph completes with this update
DebateComplete(node, update) ==
    /\ pc = "waiting"
    /\ WithinBudget
    /\ inflight # <<>>
    /\ Head(inflight).node = node
    /\ state' = Merge(state, update)
    /\ writes' = writes \cup {<<Head(inflight).round, node, f>> : f \in DOMAIN update}
    /\ inflight' = Tail(inflight)
    /\ pc' = "supervisor"
    /\ UNCHANGED <<kind, members, method, max_turns, log, workers, outer, host>>

\* the turn of a research debater: the utterance goes to its own history and to
\* the joint history, it is the current response, and count goes up by one
ResearchTurn(debate, own_history, text) ==
    [debate EXCEPT !.history = @ \o text,
                   ![own_history] = @ \o text,
                   !.current_response = text,
                   !.count = @ + 1]

BullResearcher ==
    /\ kind = "research"
    /\ \E text \in Signals(ResearchTexts, BullText) :
          DebateComplete(BULL_NODE,
              [investment_debate_state |->
                  ResearchTurn(state.investment_debate_state, "bull_history", text)])

BearResearcher ==
    /\ kind = "research"
    /\ \E text \in Signals(ResearchTexts, BearText) :
          DebateComplete(BEAR_NODE,
              [investment_debate_state |->
                  ResearchTurn(state.investment_debate_state, "bear_history", text)])

\* the judge of the research debate: writes its decision, which is the investment plan
ResearchManager ==
    /\ kind = "research"
    /\ \E decision \in Decisions :
          DebateComplete(RESEARCH_MANAGER_NODE,
              [investment_debate_state |->
                  [state.investment_debate_state EXCEPT !.judge_decision = decision],
               investment_plan |-> decision])

\* the turn of a risk debater: as a research debater's, with the speaker's
\* identity in latest_speaker
RiskTurn(debate, own_history, own_response, text, speaker) ==
    [debate EXCEPT !.history = @ \o text,
                   ![own_history] = @ \o text,
                   ![own_response] = text,
                   !.latest_speaker = speaker,
                   !.count = @ + 1]

RiskyDebator ==
    /\ kind = "risk"
    /\ \E speaker \in Signals(RiskSpeakers, <<"R", "i", "s", "k", "y">>) :
          DebateComplete(RISK_NODE,
              [risk_debate_state |->
                  RiskTurn(state.risk_debate_state, "risky_history",
                           "current_risky_response", <<"r">>, speaker)])

SafeDebator ==
    /\ kind = "risk"
    /\ \E speaker \in Signals(RiskSpeakers, <<"S", "a", "f", "e">>) :
          DebateComplete(SAFE_NODE,
              [risk_debate_state |->
                  RiskTurn(state.risk_debate_state, "safe_history",
                           "current_safe_response", <<"s">>, speaker)])

NeutralDebator ==
    /\ kind = "risk"
    /\ \E speaker \in Signals(RiskSpeakers, <<"N", "e", "u", "t", "r", "a", "l">>) :
          DebateComplete(NEUTRAL_NODE,
              [risk_debate_state |->
                  RiskTurn(state.risk_debate_state, "neutral_history",
                           "current_neutral_response", <<"n">>, speaker)])

\* the judge of the risk debate: writes its decision, which is the final trade
\* decision, and its identity as the latest speaker
RiskManager ==
    /\ kind = "risk"
    /\ \E decision \in Decisions :
          DebateComplete(RISK_MANAGER_NODE,
              [risk_debate_state |->
                  [state.risk_debate_state EXCEPT !.judge_decision = decision,
                                                  !.latest_speaker = <<"J", "u", "d", "g", "e">>],
               final_trade_decision |-> decision])

NextDebate ==
    \/ DebateSupervisorStep
    \/ BullResearcher
    \/ BearResearcher
    \/ ResearchManager
    \/ RiskyDebator
    \/ SafeDebator
    \/ NeutralDebator
    \/ RiskManager

SpecDebate == InitDebate /\ [][NextDebate]_vars

\* A coordinator applied to any debate record: count up to one past the largest
\* bound, any continuity signal, with and without a decision of the judge
InitCoordinator ==
    /\ kind \in {"research", "risk"}
    /\ members = IF kind = "research" THEN ResearchMembers ELSE RiskMembers
    /\ method = "serial"
    /\ workers = Contract
    /\ max_turns \in 0..MaxTurns
    /\ \E c \in Tickers, d \in Dates, count \in 0..(3 * MaxTurns + 1),
          decision \in JudgeTexts \cup {None} :
          LET st == create_initial_state(c, d)
          IN  \/ /\ kind = "research"
                 /\ \E text \in ResearchTexts \cup {None} :
                       state = [st EXCEPT !.investment_debate_state.count = count,
                                          !.investment_debate_state.judge_decision = decision,
                                          !.investment_debate_state.current_response = text]
              \/ /\ kind = "risk"
                 /\ \E speaker \in RiskSpeakers \cup {None} :
                       state = [st EXCEPT !.risk_debate_state.count = count,
                                          !.risk_debate_state.judge_decision = decision,
                                          !.risk_debate_state.latest_speaker = speaker]
    /\ pc = "supervisor"
    /\ inflight = <<>>
    /\ log = <<>>
    /\ writes = {}
    /\ outer = NoOuter
    /\ host = NoHost

SpecCoordinator == InitCoordinator /\ [][DebateSupervisorStep]_vars

----------------------------------------------------------------------------
(* The whole pipeline: the workflow graph, whose phase nodes invoke the
   subgraphs *)

\* max_debate_rounds and max_risk_discuss_rounds, setup_graph's defaults
PipelineRounds == 1

\* the recursion limits a pipeline is run with: too few steps for the workflow
\* graph, and the steps the workflow graph takes over its four phases (a
\* supervisor step before each phase and after the last, and the four phases)
RecurLimits == {3, 2 * Len(<<ANALYST, RESEARCHER, TRADER, RISK>>) + 1}

InitPipeline ==
    /\ kind = "sequencer"
    /\ members = <<ANALYST, RESEARCHER, TRADER, RISK>>
    /\ method \in {"serial", "parallel"}
    /\ max_turns = PipelineRounds
    /\ \E c \in Tickers, d \in Dates : state = create_initial_state(c, d)
    /\ pc = "supervisor"
    /\ inflight = <<>>
    /\ log = <<>>
    /\ writes = {}
    /\ workers = Contract
    /\ \E limit \in RecurLimits :
          outer = [active |-> TRUE, max_recur_limit |-> limit,
                   stack |-> <<>>, results |-> <<>>]
    /\ host = NoHost

\* a phase node of the workflow graph starts: subgraph.invoke(state) runs the
\* subgraph from its supervisor on the state the node was given
PhaseInvoke(phase, subgraph, submembers) ==
    /\ outer.active
    /\ kind = "sequencer"
    /\ pc = "waiting"
    /\ inflight # <<>>
    /\ Head(inflight).node = phase
    /\ WithinBudget
    /\ outer' = [outer EXCEPT !.stack =
                    <<[members |-> members, state |-> state,
                       inflight |-> inflight, log |-> log]>>]
    /\ kind' = subgraph
    /\ members' = submembers
    /\ pc' = "supervisor"
    /\ inflight' = <<>>
    /\ log' = <<>>
    /\ UNCHANGED <<state, method, max_turns, writes, workers, host>>

\* a variant that is not the source's: the phase node hands back the result of
\* its subgraph with its name as sender
PhaseReturn_WithResult(phase, subgraph) ==
    /\ outer.active
    /\ kind = subgraph
    /\ outer.stack # <<>>
    /\ pc = "done"
    /\ inflight = <<>>
    /\ LET top == outer.stack[1]
       IN  /\ kind' = "sequencer"
           /\ members' = top.members
           /\ state' = Merge(state, [sender |-> phase])
           /\ inflight' = Tail(top.inflight)
           /\ log' = top.log
    /\ pc' = "supervisor"
    /\ outer' = [outer EXCEPT !.stack = <<>>,
                              !.results = Append(@, [phase |-> phase, result |-> state,
                                                     steps |-> Steps])]
    /\ UNCHANGED <<method, max_turns, writes, workers, host>>

\* the subgraph has ended: invoke returns its final state as result, and the
\* phase node returns Command(goto="supervisor", update={"sender": phase})
PhaseReturn(phase, subgraph) ==
    /\ outer.active
    /\ kind = subgraph
    /\ outer.stack # <<>>
    /\ pc = "done"
    /\ inflight = <<>>
    /\ LET top == outer.stack[1]
       IN  /\ kind' = "sequencer"
           /\ members' = top.members
           /\ state' = Merge(top.state, [sender |-> phase])
           /\ inflight' = Tail(top.inflight)
           /\ log' = top.log
    /\ pc' = "supervisor"
    /\ outer' = [outer EXCEPT !.stack = <<>>,
                              !.results = Append(@, [phase |-> phase, result |-> state,
                                                     steps |-> Steps])]
    /\ UNCHANGED <<method, max_turns, writes, workers, host>>

AnalystNodeInvoke == PhaseInvoke(ANALYST, "analyst", AnalystMembers)
AnalystNodeReturn == PhaseReturn(ANALYST, "analyst")
ResearcherNodeInvoke == PhaseInvoke(RESEARCHER, "research", ResearchMembers)
ResearcherNodeReturn == PhaseReturn(RESEARCHER, "research")
RiskTeamNodeInvoke == PhaseInvoke(RISK, "risk", RiskMembers)
RiskTeamNodeReturn == PhaseReturn(RISK, "risk")

\* the trader phase: writes its plan and its name as sender
TraderNode ==
    /\ outer.active
    /\ kind = "sequencer"
    /\ pc = "waiting"
    /\ inflight # <<>>
    /\ Head(inflight).node = TRADER
    /\ WithinBudget
    /\ state' = Merge(state, [trader_investment_plan |-> <<"p", "l", "a", "n">>,
                              sender |-> TRADER])
    /\ inflight' = Tail(inflight)
    /\ pc' = "supervisor"
    /\ UNCHANGED <<kind, members, method, max_turns, log, writes, workers, outer, host>>

\* a graph run has used up its recursion limit with a step still to take: the
\* error ends the subgraph, the phase node that invoked it, and the pipeline
RecursionError ==
    /\ outer.active
    /\ pc # "aborted"
    /\ ~WithinBudget
    /\ pc = "supervisor" \/ inflight # <<>>
    /\ pc' = "aborted"
    /\ UNCHANGED <<kind, members, method, max_turns, state, inflight, log, writes,
                   workers, outer, host>>

NextPipeline ==
    \/ MarketAnalyst
    \/ NewsAnalyst
    \/ SocialMediaAnalyst
    \/ FundamentalsAnalyst
    \/ BullResearcher
    \/ BearResearcher
    \/ ResearchManager
    \/ RiskyDebator
    \/ SafeDebator
    \/ NeutralDebator
    \/ RiskManager
    \/ TraderNode
    \/ AnalystNodeInvoke
    \/ AnalystNodeReturn
    \/ ResearcherNodeInvoke
    \/ ResearcherNodeReturn
    \/ RiskTeamNodeInvoke
    \/ RiskTeamNodeReturn
    \/ RecursionError
    \/ SupervisorStep
    \/ AnalystSupervisorStep
    \/ DebateSupervisorStep

SpecPipeline == InitPipeline /\ [][NextPipeline]_vars

\* every step that can be taken is taken in the end
FairSpecPipeline == SpecPipeline /\ WF_vars(NextPipeline)

----------------------------------------------------------------------------
(* Properties of the phase sequencer *)

IsPrefix(a, b) == Len(a) <= Len(b) /\ SubSeq(b, 1, Len(a)) = a

\* the decisions p0, p1, ..., p(n-1), END of a list P
InOrder(P) ==
    [i \in 1..(Len(P) + 1) |-> IF i <= Len(P) THEN <<P[i]>> ELSE <<END>>]

\* the decisions so far are p0, p1, ... in order, and END has been decided
\* exactly when all of them and END have been
RoutesInOrder(P) ==
    /\ IsPrefix(Targets(log), InOrder(P))
    /\ pc = "done" <=> Targets(log) = InOrder(P)

\* names the sequencer can tell apart: trimmed, pairwise distinct without
\* regard to case, none the reserved marker
DistinctPhases(P) ==
    /\ \A i \in 1..Len(P) :
          /\ Strip(P[i]) = P[i]
          /\ Lower(P[i]) \notin {Empty, SYSTEM}
    /\ \A i, j \in 1..Len(P) : i # j => Lower(P[i]) # Lower(P[j])

\* C1 as stated: for ANY phase list, from an unrecognized sender, when each
\* routed phase completes by setting sender to its own name, the successive
\* decisions are p0, ..., p(n-1), END: nothing skipped, nothing routed to twice
C1_AnyPhaseListInOrder ==
    kind = "sequencer" => RoutesInOrder(members)

\* C1 amended: the same for every phase list whose names are trimmed, pairwise
\* distinct without regard to case, and none of which is "system"
C1_DistinctPhaseListInOrder ==
    (kind = "sequencer" /\ DistinctPhases(members)) => RoutesInOrder(members)

\* the configured list has been driven through all four phases to END
C1_Witness ==
    /\ kind = "sequencer"
    /\ members = <<ANALYST, RESEARCHER, TRADER, RISK>>
    /\ pc = "done"
    /\ Targets(log) = <<<<ANALYST>>, <<RESEARCHER>>, <<TRADER>>, <<RISK>>, <<END>>>>

----------------------------------------------------------------------------
(* Properties of the analyst dispatcher *)

AllSlotsFilled(st) ==
    /\ st.market_report # Empty
    /\ st.news_report # Empty
    /\ st.sentiment_report # Empty
    /\ st.fundamentals_report # Empty

\* sender is empty, "system" or no member name
FirstEntry(mem, st) ==
    LET s == Lower(Strip(OrEmpty(st.sender)))
    IN  s = Empty \/ s = SYSTEM \/ ~InList(s, LowerAll(mem))

\* C2: the serial dispatch round, as create_analyst_node builds it, routes to
\* market_node, news_node, social_node, fundamentals_node in that order, each
\* once, and then ends the round
C2_SerialRoundInOrder ==
    (kind = "analyst" /\ method = "serial") => RoutesInOrder(AnalystMembers)

\* C3: parallel dispatch is a join barrier: the round never ends while a
\* report slot is empty, and a re-entry that finds an empty slot neither ends the
\* round nor routes anywhere
C3_JoinBarrier ==
    (kind = "analyst" /\ method = "parallel") =>
        /\ pc = "done" => AllSlotsFilled(state)
        /\ (pc = "supervisor" /\ log # <<>> /\ ~AllSlotsFilled(state)) =>
              analyst_supervisor_node(members, method, state).goto = <<>>

\* C4: parallel dispatch: once all four report slots are non-empty the next
\* decision is END, whatever sender the completions left behind
C4_AllFilledTerminates ==
    (kind = "analyst" /\ method = "parallel" /\ AllSlotsFilled(state)) =>
        /\ analyst_supervisor_node(members, method, state).goto = <<END>>
        /\ pc = "done" => log[Len(log)].goto = <<END>>

\* all four slots are filled, social_node (which writes no sender) among them,
\* and the dispatcher has ended the round
C4_Witness ==
    /\ kind = "analyst"
    /\ method = "parallel"
    /\ AllSlotsFilled(state)
    /\ inflight = <<>>
    /\ pc = "done"
    /\ Targets(log) = <<AnalystMembers, <<END>>>>

\* C5: parallel dispatch, first entry: one decision starts exactly one
\* invocation per member, in the members' order, each given the state as of the
\* decision, and does not end the round
C5_FanOutOncePerWorker ==
    [][(kind = "analyst" /\ method = "parallel" /\ log' # log
            /\ FirstEntry(members, state)) =>
          /\ log' = Append(log, [goto |-> members, arg |-> state])
          /\ inflight' = inflight \o
                [i \in 1..Len(members) |-> [node |-> members[i], round |-> Len(log')]]
          /\ state' = state
          /\ pc' = "waiting"]_vars

\* the four invocations of a fan-out from sender "system" are in flight
C5_Witness ==
    /\ kind = "analyst"
    /\ method = "parallel"
    /\ Len(log) = 1
    /\ log[1].arg.sender = SYSTEM
    /\ Len(inflight) = Len(members)
    /\ \A i \in 1..Len(members) : inflight[i] = [node |-> members[i], round |-> 1]

\* C6: the workers of one fan-out write pairwise disjoint fields, messages (which
\* is appended to) aside
C6_DisjointWrites ==
    (kind = "analyst" /\ method = "parallel") =>
        \A w1, w2 \in writes :
            (w1[1] = w2[1] /\ w1[2] # w2[2] /\ w1[3] = w2[3]) => w1[3] = "messages"

\* C7: whatever the interleaving of the completions, the round ends once, and
\* when it ends every worker of the fan-out has written its report slot
C7_EndsOnceWithEveryReport ==
    (kind = "analyst" /\ method = "parallel") =>
        /\ Cardinality({i \in 1..Len(log) : log[i].goto = <<END>>}) <= 1
        /\ pc = "done" =>
              \A r \in FanOuts(log), i \in 1..Len(members) :
                  <<r, members[i], ReportSlot(members[i])>> \in writes

----------------------------------------------------------------------------
(* Properties of the debate coordinators *)

IsDebate == kind \in {"research", "risk"}

\* max_turns x (number of debaters)
Bound == max_turns * debater_count(LowerAll(members))

\* the decisions so far that routed a debater
DebaterRoutes == {i \in 1..Len(log) : log[i].goto \notin {<<JudgeNode>>, <<END>>}}

\* the risk debate record names the judge as latest speaker without a decision
JudgeSpokeLast(d) ==
    /\ kind = "risk"
    /\ ~Truthy(d.judge_decision)
    /\ Lower(OrEmpty(d.latest_speaker)) = JUDGE

\* Bound debater turns, then one judge turn, then the end
FullDebate ==
    /\ Len(log) = Bound + 2
    /\ \A i \in 1..Bound : i \in DebaterRoutes
    /\ log[Bound + 1].goto = <<JudgeNode>>
    /\ log[Bound + 2].goto = <<END>>
    /\ Debate.count = Bound

\* debater turns only, at least one and at most Bound, then the end
CutShort ==
    /\ JudgeRoutes = {}
    /\ DebaterRoutes = 1..(Len(log) - 1)
    /\ Len(log) - 1 \in 1..Bound
    /\ Debate.count = Len(log) - 1

\* a debate whose judge decides never routes more than Bound debater turns
\* nor more than one judge turn, and never stops before its end: the
\* coordinator can always decide and one routed turn is always pending
BoundedDebate ==
    /\ Cardinality(DebaterRoutes) <= Bound
    /\ Cardinality(JudgeRoutes) <= 1
    /\ pc = "supervisor" => WithinJudgeTurns(DebateDecision.goto)
    /\ pc = "waiting" => Len(inflight) = 1

\* C8 (as stated): provided every debater turn adds one to count and the judge
\* turn sets judge_decision, every debate ends after exactly max_turns x
\* (number of debaters) debater turns followed by one judge turn, whatever the
\* turns write as text or continuity signal.
C8_ExactTurnsThenJudge ==
    (IsDebate /\ workers.judge = "decides") =>
        /\ BoundedDebate
        /\ pc = "done" => FullDebate

\* C8 (amended): as stated, except that the risk debate ends at once, without
\* a judge turn, when a debater turn leaves "judge" (in any case) as the latest
\* speaker.
C8_ExactTurnsUnlessJudgeSpoke ==
    (IsDebate /\ workers.judge = "decides") =>
        /\ BoundedDebate
        /\ pc = "done" => IF JudgeSpokeLast(Debate) THEN CutShort ELSE FullDebate

\* a risk debate of at least one round, run to its end through the judge, in
\* which no turn left a continuity signal at all
C8_Witness ==
    /\ kind = "risk"
    /\ workers.judge = "decides"
    /\ max_turns >= 1
    /\ pc = "done"
    /\ FullDebate
    /\ \A i \in 1..Bound : ~Truthy(log[i].arg.risk_debate_state.latest_speaker)

\* C9 (as stated): while judge_decision is empty and count has reached
\* max_turns x (number of debaters) the decision is the judge, regardless of
\* current_response or latest_speaker; while count is below it the decision is
\* never the judge.
C9_EscalationPrecedence ==
    IsDebate =>
        /\ (~Truthy(Debate.judge_decision) /\ Debate.count >= Bound)
              => DebateDecision.goto = <<JudgeNode>>
        /\ Debate.count < Bound => DebateDecision.goto # <<JudgeNode>>

\* C9 (amended): as stated, except in the risk debate when latest_speaker is
\* "judge" (in any case): the decision is then the end, whatever count is.
C9_EscalationUnlessJudgeSpoke ==
    IsDebate =>
        /\ (~Truthy(Debate.judge_decision) /\ Debate.count >= Bound
                /\ ~JudgeSpokeLast(Debate))
              => DebateDecision.goto = <<JudgeNode>>
        /\ JudgeSpokeLast(Debate) => DebateDecision.goto = <<END>>
        /\ Debate.count < Bound => DebateDecision.goto # <<JudgeNode>>

\* the judge of a risk debate of at least one round is routed although the
\* latest speaker is the risky debater, whose successor would be safe_node
C9_Witness ==
    /\ kind = "risk"
    /\ max_turns >= 1
    /\ pc = "waiting"
    /\ Head(inflight).node = RISK_MANAGER_NODE
    /\ Strip(Lower(OrEmpty(state.risk_debate_state.latest_speaker))) = RISKY
    /\ state.risk_debate_state.count = Bound

\* C10: the research debate as built (bear_node, bull_node,
\* research_manager_node) with max_turns = 1: the first decision is bull_node;
\* the decision at count 1 with a response that starts with "Bull Analyst:" is
\* bear_node; the decision at count 2 is research_manager_node whatever the
\* response is; with debaters that write their own label the run is bull, bear,
\* judge.
C10_OneRoundResearch ==
    (kind = "research" /\ max_turns = 1) =>
        /\ Len(log) >= 1 => log[1].goto = <<BULL_NODE>>
        /\ \A i \in 1..Len(log) :
              log[i].goto # <<END>> =>
                  LET d == log[i].arg.investment_debate_state
                  IN  /\ (d.count = 1 /\ StartsWith(d.current_response, BULL_PREFIX))
                            => log[i].goto = <<BEAR_NODE>>
                      /\ (d.count = 2 /\ ~Truthy(d.judge_decision))
                            => log[i].goto = <<RESEARCH_MANAGER_NODE>>
        /\ workers.debaters = "own" =>
              \A i \in 1..Len(log) :
                  i <= 3 => log[i].goto =
                      <<(<<BULL_NODE, BEAR_NODE, RESEARCH_MANAGER_NODE>>)[i]>>

\* bull, then bear, whose turn leaves an empty response, then the judge
C10_Witness ==
    /\ kind = "research"
    /\ max_turns = 1
    /\ Len(log) >= 3
    /\ log[1].goto = <<BULL_NODE>>
    /\ log[2].goto = <<BEAR_NODE>>
    /\ log[3].goto = <<RESEARCH_MANAGER_NODE>>
    /\ log[3].arg.investment_debate_state.current_response = Empty
    /\ log[3].arg.investment_debate_state.count = 2

\* the risky, safe, neutral cycle repeated for n rounds, then the judge
RiskCycle(n) ==
    [i \in 1..(3 * n + 1) |->
        IF i = 3 * n + 1 THEN <<RISK_MANAGER_NODE>>
        ELSE <<(<<RISK_NODE, SAFE_NODE, NEUTRAL_NODE>>)[((i - 1) % 3) + 1]>>]

\* C11: the risk coordinator routes risk_node from an empty latest_speaker, then
\* safe_node after risky, neutral_node after safe, risk_node after neutral; with
\* max_turns = 3 and debaters that name themselves the cycle risky, safe, neutral
\* runs for exactly 3 rounds (9 turns) and the tenth decision is
\* risk_manager_node.
C11_RiskSuccessorCycle ==
    kind = "risk" =>
        /\ \A i \in 1..Len(log) :
              log[i].goto # <<END>> =>
                  LET d == log[i].arg.risk_debate_state
                      latest == Strip(Lower(OrEmpty(d.latest_speaker)))
                  IN  d.count < Bound =>
                          /\ latest = Empty => log[i].goto = <<RISK_NODE>>
                          /\ latest = RISKY => log[i].goto = <<SAFE_NODE>>
                          /\ latest = SAFE => log[i].goto = <<NEUTRAL_NODE>>
                          /\ latest = NEUTRAL => log[i].goto = <<RISK_NODE>>
        /\ (workers.debaters = "own" /\ max_turns = DefaultRiskTurns) =>
              \A i \in 1..Len(log) :
                  i <= 3 * DefaultRiskTurns + 1 => log[i].goto = RiskCycle(DefaultRiskTurns)[i]

\* nine turns in the order risky, safe, neutral and then the judge is routed
C11_Witness ==
    /\ kind = "risk"
    /\ max_turns = DefaultRiskTurns
    /\ Len(log) = 3 * DefaultRiskTurns + 1
    /\ Targets(log) = RiskCycle(DefaultRiskTurns)
    /\ state.risk_debate_state.count = 9
    /\ pc = "waiting"

\* C12: in both debate coordinators, whenever judge_decision is non-empty the
\* decision is END, whatever count, latest_speaker and current_response are, and
\* the decision changes nothing, so that deciding again gives END again.
C12_TerminalDecisionIdempotent ==
    (IsDebate /\ Truthy(Debate.judge_decision)) =>
        /\ DebateDecision.goto = <<END>>
        /\ Merge(state, DebateDecision.update) = state
        /\ pc = "done" => (log # <<>> /\ log[Len(log)].goto = <<END>>)

\* a record with a decision of the judge, count at the bound and a latest
\* speaker whose successor is safe_node: the coordinator has decided END
C12_Witness ==
    /\ kind = "risk"
    /\ max_turns >= 1
    /\ Truthy(state.risk_debate_state.judge_decision)
    /\ state.risk_debate_state.count >= Bound
    /\ Strip(Lower(OrEmpty(state.risk_debate_state.latest_speaker))) = RISKY
    /\ pc = "done"
    /\ Targets(log) = <<<<END>>>>

\* the debate record of a state
DebateOf(st) == IF kind = "research" THEN st.investment_debate_state
                                     ELSE st.risk_debate_state

\* judge_decision as every decision so far found it, and as it is now
JudgeTrail ==
    [i \in 1..(Len(log) + 1) |->
        IF i <= Len(log) /\ log[i].goto # <<END>>
        THEN DebateOf(log[i].arg).judge_decision
        ELSE Debate.judge_decision]

\* where judge_decision went from empty to non-empty, and back
DecisionSet == {i \in 1..Len(log) : ~Truthy(JudgeTrail[i]) /\ Truthy(JudgeTrail[i + 1])}
DecisionLost == {i \in 1..Len(log) : Truthy(JudgeTrail[i]) /\ ~Truthy(JudgeTrail[i + 1])}

\* once judge_decision is set a decision routes to nobody
NoRouteAfterDecision ==
    \A i \in 1..Len(log) : Truthy(JudgeTrail[i]) => log[i].goto = <<END>>

CountTrail ==
    [i \in 1..(Len(log) + 1) |->
        IF i <= Len(log) /\ log[i].goto # <<END>>
        THEN DebateOf(log[i].arg).count
        ELSE Debate.count]

\* the debater turns routed before decision i
DebaterTurnsBefore(i) == Cardinality({j \in DebaterRoutes : j < i})

\* C14: count goes up by exactly 1 on each debater turn, is left alone by the
\* judge turn and by every decision of the coordinator, and never goes down; at
\* every decision count is the number of debater turns taken so far.
C14_CountIsDebaterTurns ==
    IsDebate =>
        /\ \A i \in 1..Len(log) :
              /\ CountTrail[i] = DebaterTurnsBefore(i)
              /\ CountTrail[i + 1] >= CountTrail[i]
              /\ CountTrail[i + 1] - CountTrail[i] \in
                    IF i \in DebaterRoutes /\ (i < Len(log) \/ pc = "supervisor")
                    THEN {1} ELSE {0}
        /\ Debate.count = CountTrail[Len(log) + 1]
        /\ Merge(state, DebateDecision.update) = state

\* a risk debate that has ended after three debater turns and the judge's: count
\* was 0, 1, 2, 3 at the decisions that routed them and is 3 at the end
C14_Witness ==
    /\ kind = "risk"
    /\ max_turns = 1
    /\ pc = "done"
    /\ Len(log) = 5
    /\ [i \in 1..5 |-> CountTrail[i]] = <<0, 1, 2, 3, 3>>
    /\ state.risk_debate_state.count = 3

----------------------------------------------------------------------------
(* Properties of a whole dispatch round and of the pipeline *)

\* the decisions so far that invoked this analyst node
InvocationsOf(node) ==
    {i \in 1..Len(log) : \E k \in 1..Len(log[i].goto) : log[i].goto[k] = node}

\* C15: each of the four report slots is written at most once: in serial and in
\* parallel mode no analyst worker is invoked a second time within a dispatch
\* round, so no slot is written twice.
C15_ReportSlotsWrittenOnce ==
    kind = "analyst" =>
        \A n \in 1..Len(members) :
            /\ Cardinality(InvocationsOf(members[n])) <= 1
            /\ Cardinality({w \in writes : w[2] = members[n]
                                /\ w[3] = ReportSlot(members[n])}) <= 1

----------------------------------------------------------------------------
(* The routing rule of the phase sequencer *)

\* the positions of P whose name, case-folded, is s
Matches(P, s) == {i \in 1..Len(P) : Lower(P[i]) = s}

\* the least element of a non-empty set of numbers
Least(S) == CHOOSE i \in S : \A j \in S : i <= j

\* the target the rule of the specification gives for sender in phase list P
RuleTarget(P, sender) ==
    LET s == Lower(Strip(OrEmpty(sender)))
    IN  IF s = Empty \/ s = SYSTEM \/ Matches(P, s) = {}
        THEN P[1]
        ELSE LET i == Least(Matches(P, s))
             IN  IF i = Len(P) THEN END ELSE P[i + 1]

\* C18: each decision of the phase sequencer is the one the rule gives for the
\* sender it finds: p0 when sender, trimmed and case-folded, is empty, "system"
\* or no case-folded name of P; else END when sender is the last name and the
\* name after it otherwise; the name is as configured.
C18_SequencerRoutingRule ==
    [][(kind = "sequencer" /\ log' # log) =>
          /\ log' = Append(log, log'[Len(log')])
          /\ log'[Len(log')].goto = <<RuleTarget(members, state.sender)>>
          /\ \/ log'[Len(log')].goto = <<END>>
             \/ \E i \in 1..Len(members) : log'[Len(log')].goto = <<members[i]>>]_vars

\* the list "Risk", "analyst" run to its end: sender "Risk" was matched without
\* regard to case and the names routed are as configured
C18_Witness ==
    /\ kind = "sequencer"
    /\ members = <<(<<"R", "i", "s", "k">>), ANALYST>>
    /\ pc = "done"
    /\ Targets(log) = <<<<(<<"R", "i", "s", "k">>)>>, <<ANALYST>>, <<END>>>>

\* C19: every decision of the phase sequencer (first entry, advance, end) carries
\* the update sender = "supervisor" and changes no other field of the state.
C19_SequencerPatchIsSender ==
    [][(kind = "sequencer" /\ log' # log) =>
          /\ state' = [state EXCEPT !.sender = SUPERVISOR]
          /\ DOMAIN make_supervisor_node(members, state).update = {"sender"}
          /\ make_supervisor_node(members, state).update.sender = SUPERVISOR]_vars

\* a first entry, an advance and the end have been decided, and sender is the
\* sequencer's marker
C19_Witness ==
    /\ kind = "sequencer"
    /\ Len(members) = 2
    /\ members[1] # members[2]
    /\ pc = "done"
    /\ Len(log) = 3
    /\ state.sender = SUPERVISOR
    /\ writes # {}

----------------------------------------------------------------------------
(* One decision of the phase sequencer or of the analyst dispatcher, from any
   sender *)

\* sender values a decision may find: absent or None (state.get gives None for
\* both), empty, whitespace only, "system" plain and padded, names of no member,
\* and names of members, plain and padded in another case
RouterSenders ==
    UnrecognizedSenders
        \cup {<<" ", "\t", "\n">>, ANALYST, RISK, MARKET_NODE, FUNDAMENTALS_NODE,
              <<" ", "T", "r", "a", "d", "e", "r", " ">>}

RouterLists == PhaseLists \cup {AnalystMembers}

InitRouter ==
    /\ kind \in {"sequencer", "analyst"}
    /\ members \in RouterLists
    /\ method \in (IF kind = "analyst" THEN {"serial", "parallel"} ELSE {"serial"})
    /\ max_turns = 0
    /\ \E c \in Tickers, d \in Dates, s \in RouterSenders :
          state = [create_initial_state(c, d) EXCEPT !.sender = s]
    /\ pc = "supervisor"
    /\ inflight = <<>>
    /\ log = <<>>
    /\ writes = {}
    /\ outer = NoOuter
    /\ host = NoHost
    /\ workers = Contract

NextRouter == SupervisorStep \/ AnalystSupervisorStep

SpecRouter == InitRouter /\ [][NextRouter]_vars

\* sender is absent, None, empty, whitespace only, "system", or no member's name
Unrecognized(P, sender) ==
    \/ sender = None
    \/ Strip(sender) = Empty
    \/ Lower(Strip(sender)) = SYSTEM
    \/ Matches(P, Lower(Strip(sender))) = {}

\* C20: for every non-empty member list and every unrecognized sender (absent,
\* None, empty, whitespace only, "system", a string that matches no member) the
\* phase sequencer and the analyst dispatcher, serial and parallel, give the
\* first-entry decision: the first member, or one invocation per member in
\* parallel mode; the decision is always produced.
C20_UnrecognizedSenderIsFirstEntry ==
    [][(log' # log /\ Unrecognized(members, state.sender)) =>
          /\ log'[Len(log')].goto =
                IF kind = "analyst" /\ method = "parallel" THEN members
                ELSE <<members[1]>>
          /\ pc' = "waiting"
          /\ Len(inflight') = Len(log'[Len(log')].goto)]_vars

\* the parallel dispatcher found a whitespace-only sender and started one
\* invocation per member
C20_Witness ==
    /\ kind = "analyst"
    /\ method = "parallel"
    /\ members = AnalystMembers
    /\ Len(log) = 1
    /\ log[1].arg.sender = <<" ", "\t", "\n">>
    /\ log[1].goto = members
    /\ Len(inflight) = 4

----------------------------------------------------------------------------
(* The pipeline as a whole: its recursion limit and what its phases hand back *)

RECURSIVE StepsOfResults(_)
StepsOfResults(results) ==
    IF results = <<>> THEN 0
    ELSE Head(results).steps + StepsOfResults(Tail(results))

\* the steps of the workflow graph together with the steps of every subgraph
\* run, finished or not
TotalSteps ==
    Steps + StepsOfResults(outer.results)
          + (IF outer.stack = <<>> THEN 0
             ELSE StepsOf(outer.stack[1].log, outer.stack[1].inflight))

\* the pipeline is over: the workflow graph has ended, or a run has aborted
Finished == (kind = "sequencer" /\ pc = "done") \/ pc = "aborted"

\* no graph run, the workflow's or a subgraph's, takes more steps than the limit
RunsWithinLimit ==
    /\ Steps <= outer.max_recur_limit
    /\ \A i \in 1..Len(outer.results) : outer.results[i].steps <= outer.max_recur_limit
    /\ \A i \in 1..Len(outer.stack) :
          StepsOf(outer.stack[i].log, outer.stack[i].inflight) <= outer.max_recur_limit
    /\ pc = "aborted" => Steps = outer.max_recur_limit

PhaseFields(phase) ==
    CASE phase = ANALYST -> {"market_report", "sentiment_report", "news_report",
                             "fundamentals_report"}
      [] phase = RESEARCHER -> {"investment_debate_state", "investment_plan"}
      [] phase = RISK -> {"risk_debate_state", "final_trade_decision"}

\* C17: what the workers write inside the analyst, research and risk subgraphs
\* is in the state of the workflow graph once the phase has returned, and the
\* final state of a pipeline that ends normally has the four reports, both
\* judge decisions and the final trade decision
C17_SubgraphWritesReachTopLevel ==
    outer.active /\ kind = "sequencer" =>
        /\ \A i \in 1..Len(outer.results) :
              \A f \in PhaseFields(outer.results[i].phase) :
                  state[f] = outer.results[i].result[f]
        /\ pc = "done" =>
              /\ \A node \in {MARKET_NODE, NEWS_NODE, SOCIAL_NODE, FUNDAMENTALS_NODE} :
                    Truthy(state[ReportSlot(node)])
              /\ Truthy(state.investment_debate_state.judge_decision)
              /\ Truthy(state.risk_debate_state.judge_decision)
              /\ Truthy(state.final_trade_decision)

----------------------------------------------------------------------------
(* The start of a debate and the stalled debate: one decision of a coordinator
   from any continuity signal, over several member lists *)

\* member lists a research coordinator is built with: as create_researcher_node
\* builds it, and without bull_node
ResearchLists == {ResearchMembers, <<BEAR_NODE, RESEARCH_MANAGER_NODE>>}

\* member lists a risk coordinator is built with: as create_risk_node builds
\* it, and without risk_node
RiskLists == {RiskMembers, <<SAFE_NODE, NEUTRAL_NODE, RISK_MANAGER_NODE>>}

\* responses that start with no debater's label
StalledTexts == {Lower(BullText), <<"H", "o", "l", "d">>}

\* latest speakers that are no debater
StalledSpeakers ==
    {<<"J", "u", "d", "g", "e">>, <<" ", "j", "u", "d", "g", "e">>, <<"B", "u", "l", "l">>}

InitStalled ==
    /\ kind \in {"research", "risk"}
    /\ members \in (IF kind = "research" THEN ResearchLists ELSE RiskLists)
    /\ method = "serial"
    /\ workers = Contract
    /\ max_turns \in 0..MaxTurns
    /\ \E c \in Tickers, d \in Dates, count \in 0..(3 * MaxTurns + 1),
          decision \in JudgeTexts \cup {None} :
          LET st == create_initial_state(c, d)
          IN  \/ /\ kind = "research"
                 /\ \E text \in ResearchTexts \cup StalledTexts \cup {None} :
                       state = [st EXCEPT !.investment_debate_state.count = count,
                                          !.investment_debate_state.judge_decision = decision,
                                          !.investment_debate_state.current_response = text]
              \/ /\ kind = "risk"
                 /\ \E speaker \in RiskSpeakers \cup StalledSpeakers \cup {None} :
                       state = [st EXCEPT !.risk_debate_state.count = count,
                                          !.risk_debate_state.judge_decision = decision,
                                          !.risk_debate_state.latest_speaker = speaker]
    /\ pc = "supervisor"
    /\ inflight = <<>>
    /\ log = <<>>
    /\ writes = {}
    /\ outer = NoOuter
    /\ host = NoHost

SpecStalled == InitStalled /\ [][DebateSupervisorStep]_vars

\* the continuity signal of the debate, as the coordinator reads it
Signal ==
    IF kind = "research" THEN Strip(OrEmpty(Debate.current_response))
    ELSE Strip(Lower(OrEmpty(Debate.latest_speaker)))

\* the signal names a debater
Recognized ==
    IF kind = "research"
    THEN StartsWith(Signal, BULL_PREFIX) \/ StartsWith(Signal, BEAR_PREFIX)
    ELSE Signal \in {RISKY, SAFE, NEUTRAL}

\* the debate is going on: no decision of the judge, count below the bound
Ongoing == IsDebate /\ ~Truthy(Debate.judge_decision) /\ Debate.count < Bound

\* the starting debater of the debate
Starter == IF kind = "research" THEN BULL_NODE ELSE RISK_NODE

\* C22, as stated: in a debate that is going on, a non-empty signal that names
\* no debater routes to the first member of the list the coordinator was built
\* with
C22_FallbackIsFirstMember ==
    (Ongoing /\ Signal # Empty /\ ~Recognized)
        => DebateDecision.goto = <<members[1]>>

\* C22, amended: in a debate that is going on, a non-empty signal that names no
\* debater routes to the starting debater (bull_node, risk_node) when the
\* member list has it, wherever it is in the list, and to the first member of
\* the list only when it has not; except that the risk coordinator ends the
\* debate when the latest speaker is "judge" in any letter case
C22_FallbackIsStarterThenFirstMember ==
    (Ongoing /\ Signal # Empty /\ ~Recognized) =>
        DebateDecision.goto =
            IF JudgeSpokeLast(Debate) THEN <<END>>
            ELSE IF InList(Starter, LowerAll(members)) THEN <<Pick(members, Starter)>>
            ELSE <<members[1]>>

\* the research coordinator as built has routed bull_node, its second member,
\* on a response that starts with no debater's label
C22_Witness ==
    /\ kind = "research"
    /\ members = ResearchMembers
    /\ Ongoing
    /\ Signal # Empty
    /\ ~Recognized
    /\ pc = "waiting"
    /\ Head(inflight).node = BULL_NODE
    /\ members[1] # BULL_NODE

\* C23, as stated: in a debate as built that is going on, an empty signal and a
\* signal that names no debater route to the starting debater (bull_node for
\* research, risk_node for risk)
C23_StartAndStalledGoToStarter ==
    (Ongoing /\ members \in {ResearchMembers, RiskMembers} /\ ~Recognized)
        => DebateDecision.goto = <<Starter>>

\* C23, amended: as stated, except in the risk debate when the latest speaker
\* is "judge" in any letter case: the decision is then the end of the debate
C23_StartAndStalledUnlessJudgeSpoke ==
    (Ongoing /\ members \in {ResearchMembers, RiskMembers} /\ ~Recognized)
        => DebateDecision.goto = IF JudgeSpokeLast(Debate) THEN <<END>> ELSE <<Starter>>

\* the risk coordinator as built has routed risk_node on a latest speaker that
\* is no debater, and not the judge either
C23_Witness ==
    /\ kind = "risk"
    /\ members = RiskMembers
    /\ Ongoing
    /\ Signal # Empty
    /\ ~Recognized
    /\ ~JudgeSpokeLast(Debate)
    /\ pc = "waiting"
    /\ Head(inflight).node = RISK_NODE

----------------------------------------------------------------------------
(* The merge of a worker's update into the shared state *)

\* the updates the analyst workers return
AnalystUpdates ==
    UNION {{market_analyst_node(r), news_analyst_node(r),
            social_media_analyst_node(r), fundamentals_analyst_node(r)} : r \in Reports}

\* the merge of one update: named fields replaced, the others kept, the
\* update's messages appended
MergedAsStated(st, update) ==
    LET merged == Merge(st, update)
    IN  /\ DOMAIN merged = DOMAIN st
        /\ \A f \in DOMAIN st :
              IF f \notin DOMAIN update THEN merged[f] = st[f]
              ELSE IF f = "messages" THEN merged[f] = st[f] \o update[f]
              ELSE merged[f] = update[f]

\* C24: the merge of a worker's update replaces each field the update names
\* (last write wins) and leaves every other field as it is, except messages,
\* to which the update's messages are appended; over any sequence of updates
\* the messages before a step are a prefix of the messages after it
C24_MergeReplacesAndAppends ==
    /\ [](kind = "analyst" => \A update \in AnalystUpdates : MergedAsStated(state, update))
    /\ [][kind = "analyst" => IsPrefix(state.messages, state'.messages)]_vars

\* news_node has appended its message to the message of the run's start, and
\* sender, written by news_node and then by another worker, holds the last write
C24_Witness ==
    /\ kind = "analyst"
    /\ Len(state.messages) >= 2
    /\ state.messages[1] = <<"human", state.company_of_interest>>
    /\ state.sender \in {MARKET_NODE, FUNDAMENTALS_NODE}
    /\ \E w \in writes : w[2] = NEWS_NODE /\ w[3] = "sender"

----------------------------------------------------------------------------
(* The phase sequencer and the serial analyst dispatcher as one cursor *)

\* C25: for every member list and every sender, the phase sequencer and the
\* serial analyst dispatcher built with that list decide the same target (a
\* member or END); the sequencer's patch sets sender, the dispatcher patches
\* nothing
C25_SerialDispatcherIsSequencerCursor ==
    kind \in {"sequencer", "analyst"} =>
        LET sequencer == make_supervisor_node(members, state)
            dispatcher == analyst_supervisor_node(members, "serial", state)
        IN  /\ sequencer.goto = dispatcher.goto
            /\ sequencer.update = [sender |-> SUPERVISOR]
            /\ dispatcher.update = NoUpdate

\* the sequencer has advanced from a recognized sender to the next member of a
\* list of several members, which is also the serial dispatcher's target
C25_Witness ==
    /\ kind = "sequencer"
    /\ Len(members) >= 2
    /\ log # <<>>
    /\ log[1].goto = <<members[2]>>
    /\ members[2] # members[1]
    /\ analyst_supervisor_node(members, "serial",
                               [state EXCEPT !.sender = members[1]]).goto = <<members[2]>>

\* states with the sender of st and other contents in the report slots, the
\* debate records, the plans and the final decision
SameSender(st) ==
    {[st EXCEPT !.market_report = report,
                !.investment_debate_state.judge_decision = judged,
                !.risk_debate_state.count = count,
                !.trader_investment_plan = plan,
                !.final_trade_decision = final] :
        report \in Reports, judged \in JudgeTexts, count \in {0, 1},
        plan \in JudgeTexts, final \in JudgeTexts}

\* C26: the decision of the phase sequencer depends on sender only: states
\* with the same sender get the same target and the same patch, whatever their
\* report slots, debate records, plans and final decision hold
C26_SequencerReadsSenderOnly ==
    kind = "sequencer" =>
        \A other \in SameSender(state) :
            make_supervisor_node(members, other) = make_supervisor_node(members, state)

\* the sequencer has advanced past the analyst phase, which left every report
\* slot empty, to the next phase
C26_Witness ==
    /\ kind = "sequencer"
    /\ Len(members) >= 2
    /\ members[1] = ANALYST
    /\ members[2] = RESEARCHER
    /\ Len(log) >= 2
    /\ log[2].goto = <<RESEARCHER>>
    /\ \A node \in {MARKET_NODE, NEWS_NODE, SOCIAL_NODE, FUNDAMENTALS_NODE} :
          state[ReportSlot(node)] = Empty
    /\ <<1, ANALYST, "sender">> \in writes

----------------------------------------------------------------------------
(* What a phase node of the workflow graph hands back *)

\* C29: a phase node that has run its subgraph (analyst_node, researcher_node,
\* risk_team_node) routes back to the supervisor, and its patch is the one
\* field sender, set to the name under which the sequencer routed it, a member
\* of the sequencer's list; nothing of the subgraph's result is in the patch
C29_PhasePatchIsSenderOnly ==
    [][(outer.active /\ outer.stack # <<>> /\ outer'.stack = <<>>) =>
          LET top == outer.stack[1]
          IN  /\ kind' = "sequencer"
              /\ pc' = "supervisor"
              /\ state'.sender = Head(top.inflight).node
              /\ state'.sender \in {ANALYST, RESEARCHER, RISK}
              /\ InList(state'.sender, members')
              /\ \A f \in DOMAIN state' \ {"sender"} : state'[f] = top.state[f]
              /\ outer'.results[Len(outer'.results)].result = state]_vars

\* the risk phase has come back to the supervisor: its subgraph ended with a
\* final trade decision, the workflow state has "risk" as sender and no final
\* trade decision
C29_Witness ==
    /\ outer.active
    /\ kind = "sequencer"
    /\ pc = "supervisor"
    /\ Len(outer.results) = 3
    /\ outer.results[3].phase = RISK
    /\ Truthy(outer.results[3].result.final_trade_decision)
    /\ state.sender = RISK
    /\ state.final_trade_decision = Empty

----------------------------------------------------------------------------
(* The judge of the research debate leaves no decision *)

\* C30: in a research debate, the decision that follows a routing of
\* research_manager_node is the end of the debate, whether the judge has left a
\* decision or not, and research_manager_node is routed at most once
C30_DegradedJudgeEndsDebate ==
    kind = "research" =>
        /\ \A i \in JudgeRoutes : i < Len(log) => log[i + 1].goto = <<END>>
        /\ Cardinality(JudgeRoutes) <= 1

----------------------------------------------------------------------------
(* Run after run on one TradingAgentsGraph: propagate, the state it builds and
   the log it writes *)

\* most propagate calls on one TradingAgentsGraph
MaxRuns == 2

\* the subjects and dates propagate is called with
RunTickers == {<<"A", "A", "P", "L">>, <<"M", "S", "F", "T">>}
RunDates ==
    {<<"2", "0", "2", "4", "-", "0", "1", "-", "0", "2">>,
     <<"2", "0", "2", "4", "-", "0", "1", "-", "0", "3">>}

\* a dict without keys, and d[k] = v
EmptyDict == [k \in {} |-> <<>>]
Put(d, k, v) == [x \in DOMAIN d \cup {k} |-> IF x = k THEN v ELSE d[x]]

\* a faulty variant: the record is an object built once and handed out again
Allocate_Shared(heap, record) ==
    IF \E a \in 1..Len(heap) : DOMAIN heap[a] = DOMAIN record
    THEN [heap |-> heap,
          ref |-> CHOOSE a \in 1..Len(heap) : DOMAIN heap[a] = DOMAIN record]
    ELSE [heap |-> Append(heap, record), ref |-> Len(heap) + 1]

\* InvestDebateState(...), RiskDebateState(...): the call builds a new object
Allocate(heap, record) ==
    [heap |-> Append(heap, record), ref |-> Len(heap) + 1]

\* a state whose debate records are references, with the objects they refer to
Deref(heap, st) ==
    [st EXCEPT !.investment_debate_state = heap[st.investment_debate_state.ref],
               !.risk_debate_state = heap[st.risk_debate_state.ref]]

\* the record _log_state keeps of a final state
LogRecord(final_state) ==
    [company_of_interest |-> final_state.company_of_interest,
     trade_date |-> final_state.trade_date,
     market_report |-> final_state.market_report,
     sentiment_report |-> final_state.sentiment_report,
     news_report |-> final_state.news_report,
     fundamentals_report |-> final_state.fundamentals_report,
     investment_debate_state |->
        [bull_history |-> final_state.investment_debate_state.bull_history,
         bear_history |-> final_state.investment_debate_state.bear_history,
         history |-> final_state.investment_debate_state.history,
         current_response |-> final_state.investment_debate_state.current_response,
         judge_decision |-> final_state.investment_debate_state.judge_decision],
     trader_investment_decision |-> final_state.trader_investment_plan,
     risk_debate_state |->
        [risky_history |-> final_state.risk_debate_state.risky_history,
         safe_history |-> final_state.risk_debate_state.safe_history,
         neutral_history |-> final_state.risk_debate_state.neutral_history,
         history |-> final_state.risk_debate_state.history,
         judge_decision |-> final_state.risk_debate_state.judge_decision],
     investment_plan |-> final_state.investment_plan,
     final_trade_decision |-> final_state.final_trade_decision]

\* TradingAgentsGraph.__init__: no state, no ticker, an empty log
InitRuns ==
    /\ kind = "runs"
    /\ members = <<>>
    /\ method = "serial"
    /\ max_turns = 0
    /\ state = <<>>
    /\ pc = "idle"
    /\ inflight = <<>>
    /\ log = <<>>
    /\ writes = {}
    /\ workers = Contract
    /\ outer = NoOuter
    /\ host = [ticker |-> None, curr_state |-> None, log_states_dict |-> EmptyDict,
               files |-> EmptyDict, heap |-> <<>>, runs |-> <<>>]

\* the run propagate is in
Active == host.runs[Len(host.runs)]

\* propagate(company_name, trade_date), up to the invocation of the graph:
\* self.ticker is set and create_initial_state builds the state of the run
PropagateStart ==
    /\ kind = "runs"
    /\ pc = "idle"
    /\ Len(host.runs) < MaxRuns
    /\ \E company_name \in RunTickers, trade_date \in RunDates :
          LET st == create_initial_state(company_name, trade_date)
              invest == Allocate(host.heap, st.investment_debate_state)
              risk == Allocate(invest.heap, st.risk_debate_state)
              built == [st EXCEPT !.investment_debate_state = [ref |-> invest.ref],
                                  !.risk_debate_state = [ref |-> risk.ref]]
          IN  host' = [host EXCEPT
                          !.ticker = company_name,
                          !.heap = risk.heap,
                          !.runs = Append(@, [company_name |-> company_name,
                                              trade_date |-> trade_date,
                                              state |-> built,
                                              initial |-> Deref(risk.heap, built),
                                              status |-> "running"])]
    /\ pc' = "running"
    /\ UNCHANGED <<kind, members, method, max_turns, state, inflight, log, writes,
                   workers, outer>>

\* a judge of the run writes its decision into the debate record of the run,
\* in place
DebateWrite ==
    /\ kind = "runs"
    /\ pc = "running"
    /\ \E field \in {"investment_debate_state", "risk_debate_state"},
          decision \in JudgeTexts \ {Empty} :
          LET a == Active.state[field].ref
          IN  /\ host.heap[a].judge_decision = Empty
              /\ host' = [host EXCEPT !.heap[a].judge_decision = decision,
                                      !.heap[a].count = @ + 1]
    /\ UNCHANGED <<kind, members, method, max_turns, state, pc, inflight, log, writes,
                   workers, outer>>

\* propagate, from the return of the graph: curr_state, then _log_state, which
\* puts the record under str(trade_date) and dumps log_states_dict to the file
\* of self.ticker and trade_date
PropagateReturn ==
    /\ kind = "runs"
    /\ pc = "running"
    /\ LET final_state == Deref(host.heap, Active.state)
           logged == Put(host.log_states_dict, Active.trade_date, LogRecord(final_state))
       IN  host' = [host EXCEPT
                       !.curr_state = final_state,
                       !.log_states_dict = logged,
                       !.files = Put(@, <<host.ticker, Active.trade_date>>, logged),
                       !.runs[Len(host.runs)].status = "done"]
    /\ pc' = "idle"
    /\ UNCHANGED <<kind, members, method, max_turns, state, inflight, log, writes,
                   workers, outer>>

\* the graph raises (the recursion limit): propagate ends without a log
PropagateRaise ==
    /\ kind = "runs"
    /\ pc = "running"
    /\ host' = [host EXCEPT !.runs[Len(host.runs)].status = "aborted"]
    /\ pc' = "idle"
    /\ UNCHANGED <<kind, members, method, max_turns, state, inflight, log, writes,
                   workers, outer>>

NextRuns == PropagateStart \/ DebateWrite \/ PropagateReturn \/ PropagateRaise

SpecRuns == InitRuns /\ [][NextRuns]_vars

----------------------------------------------------------------------------
(* Properties of the runs of one TradingAgentsGraph *)

\* the state of run i as it is now, its debate records included
View(h, i) == Deref(h.heap, h.runs[i].state)

\* a debate record with count 0 and every other field empty
Zeroed(debate) ==
    /\ debate.count = 0
    /\ \A f \in DOMAIN debate \ {"count"} : debate[f] = Empty

\* C21: create_initial_state(subject, date) returns a state with sender
\* "system", the four report slots empty, both debate records zeroed (count 0,
\* every history and response, latest_speaker and judge_decision empty), the
\* three plans and decisions empty, and subject and date as given; calls with
\* equal arguments return equal states, whatever happened between them
C21_InitialStateZeroedAndPure ==
    kind = "runs" =>
        \A i \in 1..Len(host.runs) :
            LET run == host.runs[i]
                st == run.initial
            IN  /\ st.sender = SYSTEM
                /\ \A node \in {MARKET_NODE, NEWS_NODE, SOCIAL_NODE, FUNDAMENTALS_NODE} :
                      st[ReportSlot(node)] = Empty
                /\ DOMAIN st.investment_debate_state =
                      {"bull_history", "bear_history", "history", "current_response",
                       "judge_decision", "count"}
                /\ Zeroed(st.investment_debate_state)
                /\ DOMAIN st.risk_debate_state =
                      {"risky_history", "safe_history", "neutral_history", "history",
                       "latest_speaker", "current_risky_response",
                       "current_safe_response", "current_neutral_response",
                       "judge_decision", "count"}
                /\ Zeroed(st.risk_debate_state)
                /\ st.investment_plan = Empty
                /\ st.trader_investment_plan = Empty
                /\ st.final_trade_decision = Empty
                /\ st.company_of_interest = run.company_name
                /\ st.trade_date = run.trade_date
                /\ \A j \in 1..Len(host.runs) :
                      (host.runs[j].company_name = run.company_name
                          /\ host.runs[j].trade_date = run.trade_date)
                      => host.runs[j].initial = st

\* two runs with the same subject and date; the first run wrote both its
\* debate records before the second state was built
C21_Witness ==
    /\ kind = "runs"
    /\ Len(host.runs) = 2
    /\ host.runs[1].company_name = host.runs[2].company_name
    /\ host.runs[1].trade_date = host.runs[2].trade_date
    /\ View(host, 1).investment_debate_state.count = 1
    /\ View(host, 1).risk_debate_state.count = 1
    /\ host.runs[2].initial.investment_debate_state.count = 0

\* the debate records of the runs are objects of their own
OwnRecords ==
    \A i, j \in 1..Len(host.runs) :
        LET a == host.runs[i].state
            b == host.runs[j].state
        IN  /\ a.investment_debate_state.ref # b.risk_debate_state.ref
            /\ i # j => /\ a.investment_debate_state.ref # b.investment_debate_state.ref
                        /\ a.risk_debate_state.ref # b.risk_debate_state.ref

\* C27: each call of create_initial_state builds debate records of its own: a
\* step of a run, a write into its debate record included, leaves the state of
\* every other run as it is
C27_DebateRecordsPerRun ==
    /\ [](kind = "runs" => OwnRecords)
    /\ [][kind = "runs" =>
            \A i \in 1..Len(host.runs) :
                (pc = "idle" \/ i # Len(host.runs)) => View(host', i) = View(host, i)]_vars

\* the second run has written its decisions into both its debate records; the
\* records of the first run, which has ended, are without a decision
C27_Witness ==
    /\ kind = "runs"
    /\ Len(host.runs) = 2
    /\ host.runs[1].status = "done"
    /\ Zeroed(View(host, 1).investment_debate_state)
    /\ Zeroed(View(host, 1).risk_debate_state)
    /\ Truthy(View(host, 2).investment_debate_state.judge_decision)
    /\ Truthy(View(host, 2).risk_debate_state.judge_decision)

\* C28: the log file written for a run of (subject, date) holds one record,
\* under the date of the run, and the record is of that subject
C28_LogFileHoldsItsRunOnly ==
    kind = "runs" =>
        \A path \in DOMAIN host.files :
            LET content == host.files[path]
            IN  /\ DOMAIN content = {path[2]}
                /\ content[path[2]].company_of_interest = path[1]
                /\ content[path[2]].trade_date = path[2]

----------------------------------------------------------------------------
(* The terminal checks of the two coordinators, and the turn-taking of the
   research debate *)

\* latest_speaker is "judge" in some letter case
SpeakerIsJudge(d) == Lower(OrEmpty(d.latest_speaker)) = JUDGE

\* C31: the risk coordinator decides the end of the debate whenever
\* latest_speaker is "judge" in some letter case, also without a decision of
\* the judge and with count below the bound, and otherwise only on a decision
\* of the judge; the research coordinator decides the end exactly when
\* judge_decision is not empty
C31_RiskEndsOnJudgeAsSpeaker ==
    /\ kind = "risk" =>
          /\ SpeakerIsJudge(Debate) => DebateDecision.goto = <<END>>
          /\ DebateDecision.goto = <<END>>
                <=> (Truthy(Debate.judge_decision) \/ SpeakerIsJudge(Debate))
    /\ kind = "research" =>
          (DebateDecision.goto = <<END>> <=> Truthy(Debate.judge_decision))

\* the risk coordinator as built has ended a debate whose count is below the
\* bound and whose judge has not decided, on the latest speaker "Judge"
C31_Witness ==
    /\ kind = "risk"
    /\ members = RiskMembers
    /\ Ongoing
    /\ Debate.latest_speaker = <<"J", "u", "d", "g", "e">>
    /\ pc = "done"
    /\ log[1].goto = <<END>>

\* both debaters of the research debate are members
TwoParty == InList(BULL_NODE, LowerAll(members)) /\ InList(BEAR_NODE, LowerAll(members))

\* C32: in a research debate of bull and bear that is going on, a response
\* that after trimming starts with "Bull Analyst:" routes bear_node, one that
\* starts with "Bear Analyst:" routes bull_node, and every other response, the
\* empty one and a label in another letter case included, routes bull_node
C32_TwoPartyTurnTaking ==
    (kind = "research" /\ TwoParty /\ Ongoing) =>
        /\ DebateDecision.goto =
              IF StartsWith(Signal, BULL_PREFIX) THEN <<Pick(members, BEAR_NODE)>>
              ELSE <<Pick(members, BULL_NODE)>>
        /\ Debate.current_response \in {BullText} => DebateDecision.goto = <<BEAR_NODE>>
        /\ Debate.current_response \in {BearText, <<" ", "\n">> \o BearText}
              => DebateDecision.goto = <<BULL_NODE>>
        /\ Debate.current_response \in {Lower(BullText), Empty, None} \cup StalledTexts
              => DebateDecision.goto = <<BULL_NODE>>

\* bull_node is routed again on a response that starts with its own label in
\* lower case
C32_Witness ==
    /\ kind = "research"
    /\ members = ResearchMembers
    /\ Ongoing
    /\ Debate.current_response = Lower(BullText)
    /\ pc = "waiting"
    /\ Head(inflight).node = BULL_NODE

----------------------------------------------------------------------------
(* The turns of a debate whose debaters keep the continuity signal *)

\* the debaters of the debate this run drives
Debaters ==
    IF kind = "research" THEN {BULL_NODE, BEAR_NODE}
    ELSE {RISK_NODE, SAFE_NODE, NEUTRAL_NODE}

\* the number of turns the debater was routed before decision j
TurnsBefore(node, j) == Cardinality({i \in 1..(j - 1) : log[i].goto = <<node>>})

\* C33: in a debate whose debaters all leave their own identity as the
\* continuity signal, no debater is routed twice in a row, and when the
\* coordinator first routes the judge every debater (bull and bear; risky, safe
\* and neutral) has had exactly max_turns turns
C33_RoundRobinFairness ==
    (IsDebate /\ workers.debaters = "own") =>
        /\ \A i \in 1..(Len(log) - 1) :
              (\E node \in Debaters : log[i].goto = <<node>>)
                  => log[i + 1].goto # log[i].goto
        /\ JudgeRoutes # {} =>
              \A node \in Debaters : TurnsBefore(node, Least(JudgeRoutes)) = max_turns

\* the judge of a risk debate of at least one round has been routed, after
\* turns of the three debaters
C33_Witness ==
    /\ kind = "risk"
    /\ workers.debaters = "own"
    /\ max_turns >= 1
    /\ JudgeRoutes # {}
    /\ Least(JudgeRoutes) = 3 * max_turns + 1
    /\ \A node \in Debaters : TurnsBefore(node, Least(JudgeRoutes)) >= 1

----------------------------------------------------------------------------
(* The dispatcher and the coordinators only read the shared state *)

\* the run is in a subgraph whose supervisor is the analyst dispatcher or a
\* debate coordinator
InSubgraph == kind \in {"analyst", "research", "risk"}

\* C34: every decision of the analyst dispatcher, serial and parallel, and of
\* the two debate coordinators carries no patch: the step that takes the
\* decision leaves the shared state (sender, the report slots, both debate
\* records) as it was
C34_SupervisorsOnlyRead ==
    /\ [](kind = "analyst" =>
            analyst_supervisor_node(members, method, state).update = NoUpdate)
    /\ [](IsDebate => DebateDecision.update = NoUpdate)
    /\ [][(InSubgraph /\ kind' = kind /\ Len(log') = Len(log) + 1) => state' = state]_vars

\* in a run of the pipeline the risk coordinator has routed the judge, and the
\* shared state is the one the decision was taken on
C34_Witness ==
    /\ outer.active
    /\ kind = "risk"
    /\ pc = "waiting"
    /\ Len(log) >= 1
    /\ log[Len(log)].goto = <<RISK_MANAGER_NODE>>
    /\ state = log[Len(log)].arg
    /\ state.risk_debate_state.count = Bound

----------------------------------------------------------------------------
(* The escalation to the judge: degenerate bounds and member lists without
   the judge *)

\* member lists a coordinator is built with: as the subgraph builds it, the
\* debaters without the judge, and the judge after a manager of another name
EscalationLists ==
    IF kind = "research"
    THEN {ResearchMembers, <<BEAR_NODE, BULL_NODE>>,
          <<RISK_MANAGER_NODE, RESEARCH_MANAGER_NODE>>}
    ELSE {RiskMembers, <<RISK_NODE, SAFE_NODE, NEUTRAL_NODE>>,
          <<RESEARCH_MANAGER_NODE, RISK_MANAGER_NODE>>}

\* the max_turns a coordinator is built with: an int, negative and zero included
EscalationTurns == (0 - 1)..MaxTurns

InitEscalation ==
    /\ kind \in {"research", "risk"}
    /\ members \in EscalationLists
    /\ method = "serial"
    /\ workers \in [debaters : {"own"}, judge : {"decides", "any"}]
    /\ max_turns \in EscalationTurns
    /\ \E c \in Tickers, d \in Dates :
          state = [create_initial_state(c, d) EXCEPT !.sender = SUPERVISOR]
    /\ pc = "supervisor"
    /\ inflight = <<>>
    /\ log = <<>>
    /\ writes = {}
    /\ outer = NoOuter
    /\ host = NoHost

\* the coordinator of the debate decides, while the run has decisions left
EscalationStep == WithinLog /\ DebateSupervisorStep

NextEscalation ==
    \/ EscalationStep
    \/ BullResearcher
    \/ BearResearcher
    \/ ResearchManager
    \/ RiskyDebator
    \/ SafeDebator
    \/ NeutralDebator
    \/ RiskManager

SpecEscalation == InitEscalation /\ [][NextEscalation]_vars

\* the judge of the debate is a member
HasJudge == InList(JudgeNode, LowerAll(members))

\* C35: a coordinator built with max_turns <= 0 and the judge among its
\* members routes the judge as its first decision on the initial debate record
\* (count 0, no decision), and the debate ends without a turn of a debater
C35_DegenerateBoundGoesToJudge ==
    (IsDebate /\ max_turns <= 0 /\ HasJudge) =>
        /\ Len(log) >= 1 => log[1].goto = <<JudgeNode>>
        /\ Len(log) = 0 => DebateDecision.goto = <<JudgeNode>>
        /\ DebaterRoutes = {}
        /\ Debate.count = 0
        /\ (pc = "done" /\ workers.judge = "decides")
              => /\ Len(log) = 2
                 /\ log[2].goto = <<END>>

\* a debate built with max_turns = -1 has ended after the turn of its judge
C35_Witness ==
    /\ IsDebate
    /\ members \in {ResearchMembers, RiskMembers}
    /\ max_turns < 0
    /\ pc = "done"
    /\ log[1].goto = <<JudgeNode>>
    /\ log[1].arg = [create_initial_state(log[1].arg.company_of_interest,
                                          log[1].arg.trade_date)
                        EXCEPT !.sender = SUPERVISOR]
    /\ Truthy(Debate.judge_decision)

\* the number of members whose name does not contain "manager", at least 1
NonManagers ==
    LET managers == {i \in 1..Len(members) : Contains(Lower(members[i]), MANAGER)}
        n == Len(members) - Cardinality(managers)
    IN  IF n < 1 THEN 1 ELSE n

\* the coordinator decides the end of the debate
Terminal == Truthy(Debate.judge_decision) \/ JudgeSpokeLast(Debate)

\* C36: a coordinator whose member list does not have the judge never routes a
\* judge, at any count, and goes on routing its debaters; one whose list has
\* the judge escalates at count >= max_turns x (number of member names that do
\* not contain "manager", at least 1), and not below it
C36_EscalationNeedsJudgeMember ==
    IsDebate =>
        /\ ~HasJudge =>
              /\ \A i \in 1..Len(log) :
                    \E m \in 1..Len(members) :
                        /\ log[i].goto = <<members[m]>>
                        /\ ~Contains(Lower(members[m]), MANAGER)
              /\ DebateDecision.goto \notin
                    {<<END>>, <<RESEARCH_MANAGER_NODE>>, <<RISK_MANAGER_NODE>>}
        /\ (HasJudge /\ ~Terminal) =>
              /\ Debate.count >= max_turns * NonManagers
                    => DebateDecision.goto = <<JudgeNode>>
              /\ Debate.count < max_turns * NonManagers
                    => DebateDecision.goto # <<JudgeNode>>

\* a debate without the judge among its members has had turns beyond its
\* bound, and a debater is routed once more
C36_Witness ==
    /\ IsDebate
    /\ ~HasJudge
    /\ max_turns >= 1
    /\ Debate.count > max_turns * NonManagers
    /\ pc = "waiting"
    /\ Head(inflight).node \in Debaters

=============================================================================
